---- MODULE Spec2Model ----
(***************************************************************************)
(* Worktree lifecycle of vibe (src/vibe/git_ops.py, src/vibe/cleanup.py,   *)
(* src/vibe/cli.py): the managed tree under the worktree base, git's       *)
(* worktree registry and branches, and the operations that create, check   *)
(* and remove worktrees.  Strings are sequences of one-character strings,  *)
(* so that prefix stripping and substring search are computed, not assumed.*)
(***************************************************************************)
EXTENDS Integers, Sequences, FiniteSets, TLC

VARIABLES fs, registry, branches, last, ops, session, pending

vars == <<fs, registry, branches, last, ops, session, pending>>

(***************************************************************************)
(* Bounds of the model.                                                    *)
(***************************************************************************)
\* number of operations (tool calls and outside edits) in one behaviour
MaxOps == 3
\* number of steps (checks of the tool and acts of others) in one interleaving
MaxRaceOps == 2

(***************************************************************************)
(* Strings.                                                                *)
(***************************************************************************)
Alphabet == <<" ", "/", "[", "]", "a", "b", "c", "f", "g", "h", "i", "m", "n", "o", "r", "s", "w", "x", "y", "z">>

Ord(c) == CHOOSE i \in 1..Len(Alphabet) : Alphabet[i] = c

\* Python str.startswith
StartsWith(s, pre) == Len(s) >= Len(pre) /\ SubSeq(s, 1, Len(pre)) = pre

\* Python `needle in haystack` on strings
Contains(hay, needle) ==
    \E i \in 0..(Len(hay) - Len(needle)) : SubSeq(hay, i + 1, i + Len(needle)) = needle

\* Python string comparison s < t
RECURSIVE StrLess(_, _)
StrLess(s, t) ==
    IF t = <<>> THEN FALSE
    ELSE IF s = <<>> THEN TRUE
    ELSE IF Head(s) = Head(t) THEN StrLess(Tail(s), Tail(t))
    ELSE Ord(Head(s)) < Ord(Head(t))

\* sorted(S) for a finite set of strings
RECURSIVE Sorted(_)
Sorted(S) ==
    IF S = {} THEN <<>>
    ELSE LET m == CHOOSE x \in S : \A y \in S \ {x} : StrLess(x, y)
         IN  <<m>> \o Sorted(S \ {m})

Slash == <<"/">>

\* the elements of a list
Range(seq) == {seq[i] : i \in 1..Len(seq)}

(***************************************************************************)
(* pathlib.Path on absolute POSIX paths without "." or empty components.   *)
(***************************************************************************)
\* index of the last "/" of p
LastSlash(p) == CHOOSE i \in 1..Len(p) : p[i] = "/" /\ \A j \in (i + 1)..Len(p) : p[j] # "/"

\* Path.parent
Parent(p) == IF LastSlash(p) = 1 THEN Slash ELSE SubSeq(p, 1, LastSlash(p) - 1)

\* Path.name
BaseName(p) == SubSeq(p, LastSlash(p) + 1, Len(p))

\* Path / str
Join(p, name) == p \o Slash \o name

\* Path.relative_to(q) does not raise: q is p or an ancestor of p (by components)
IsRelativeTo(p, q) == p = q \/ StartsWith(p, q \o Slash)

\* the ancestors of p strictly below q (p itself excluded)
AncestorsBelow(p, q) ==
    {SubSeq(p, 1, i - 1) : i \in {j \in (Len(q) + 2)..Len(p) : p[j] = "/"}}

(***************************************************************************)
(* Configuration and the universe of inputs.                               *)
(***************************************************************************)
\* LOCAL_WORKTREE_BASE
WorktreeBase == <<"/", "w">>

NoRepo == "none"

\* two original repositories with the same directory name, in different places
Repos == {"R1", "R2"}

RepoRoot(R) == IF R = "R1" THEN <<"/", "x", "/", "r">> ELSE <<"/", "y", "/", "r">>

\* repo_name arguments (get_repo_info(cwd).name is the root's basename)
RepoNames == {<<"r">>}

OriginPrefix == <<"o", "r", "i", "g", "i", "n", "/">>

nA == <<"a">>
nAB == <<"a", "b">>
nFX == <<"f", "/", "x">>
nOA == OriginPrefix \o <<"a">>
nOZ == OriginPrefix \o <<"z">>
nZ == <<"z">>
MainBranch == <<"m", "a", "i", "n">>

\* worktree_name arguments
Names == {nA, nAB, nFX, nOA, nOZ}

\* the (cwd repository, worktree_name) pairs the tool is invoked with
Invocations == ({"R1"} \X Names) \cup ({"R2"} \X {nA, nFX})

\* base_branch arguments; <<>> is None (and "", equally falsy)
BaseBranches == {<<>>, nA, nZ}

\* refs/remotes/origin/* of each repository (no fetch happens), and commits
RemoteBranches == {nA}
HeadCommit == "c0"
RemoteCommit(b) == "c1"

\* every directory the model can hold under the worktree base
RepoDirs == {Join(WorktreeBase, rn) : rn \in RepoNames}
WorktreePaths == {Join(d, n) : d \in RepoDirs, n \in {nA, nAB, nFX}}
AllDirs == RepoDirs \cup WorktreePaths \cup UNION {AncestorsBelow(p, WorktreeBase) : p \in WorktreePaths}

(***************************************************************************)
(* The filesystem under the worktree base: fs maps each existing directory *)
(* to what it holds directly.  git is the repository its .git marker links *)
(* to (NoRepo: no marker), dirty is `git status --porcelain` non-empty,    *)
(* files is a regular non-junk file, junk a file named in JUNK_FILES.      *)
(***************************************************************************)
EmptyDir == [git |-> NoRepo, dirty |-> FALSE, files |-> FALSE, junk |-> FALSE]

IsDir(f, p) == p = WorktreeBase \/ p \in DOMAIN f

\* Path.iterdir() restricted to directories
ChildDirs(f, d) == {p \in DOMAIN f : Parent(p) = d}

\* everything at or below p
Subtree(f, p) == {q \in DOMAIN f : IsRelativeTo(q, p)}

\* os.rmdir / shutil.rmtree / git's removal of a working tree
RemoveTree(f, p) == [q \in (DOMAIN f) \ Subtree(f, p) |-> f[q]]

\* Path.mkdir(parents=True, exist_ok=True)
MkdirP(f, p) ==
    LET new == ({p} \cup AncestorsBelow(p, WorktreeBase)) \ DOMAIN f
    IN  [q \in (DOMAIN f) \cup new |-> IF q \in DOMAIN f THEN f[q] ELSE EmptyDir]

\* a directory with no entry at all
NoEntries(f, p) ==
    /\ ChildDirs(f, p) = {}
    /\ f[p].git = NoRepo /\ ~f[p].files /\ ~f[p].junk

(***************************************************************************)
(* The world the operations act on: w = [fs, reg, br].  reg[R] maps each   *)
(* linked worktree path registered in repository R to its branch (a        *)
(* registered path may be missing on disk: git calls it prunable).  br[R]  *)
(* maps each local branch of R to its commit and upstream.                 *)
(***************************************************************************)
World(f, r, b) == [fs |-> f, reg |-> r, br |-> b]

NoUpstream == <<>>

Registered(w, R) == DOMAIN w.reg[R]

LocalBranches(w, R) == DOMAIN w.br[R]

\* the branches checked out somewhere: the main checkout's and every linked worktree's
CheckedOut(w, R) == {MainBranch} \cup {w.reg[R][p] : p \in Registered(w, R)}

(***************************************************************************)
(* git, as the tool drives it (git 2.39 behaviour).                        *)
(***************************************************************************)
\* a start point git can resolve: a local branch, or origin/<remote branch>
ResolvesLocal(w, R, ref) == ref \in LocalBranches(w, R)
ResolvesRemote(ref) ==
    StartsWith(ref, OriginPrefix) /\ SubSeq(ref, Len(OriginPrefix) + 1, Len(ref)) \in RemoteBranches

\* the path checks of `git worktree add --force --force`: none
CandidatePathOk_forced(w, R, path) == TRUE

\* the path checks of `git worktree add`: free or an empty directory, and not registered
CandidatePathOk(w, R, path) ==
    /\ path \in DOMAIN w.fs => NoEntries(w.fs, path)
    /\ path \notin Registered(w, R)

\* the working tree `git worktree add` lays down
CheckOut(w, R, path, branch) ==
    LET f1 == MkdirP(w.fs, path)
    IN  [w EXCEPT !.fs = [f1 EXCEPT ![path] = [EmptyDir EXCEPT !.git = R]],
                  !.reg = [w.reg EXCEPT ![R] = [q \in Registered(w, R) \cup {path} |->
                                                   IF q = path THEN branch ELSE w.reg[R][q]]]]

\* git worktree add -b <new> <path> [<start>]   (start = <<>>: HEAD)
\* The branch is created first; a path collision then fails and leaves the branch.
GitWorktreeAddNewBranch(w, R, new, path, start) ==
    LET resolves == start = <<>> \/ ResolvesLocal(w, R, start) \/ ResolvesRemote(start)
        commit == IF start = <<>> THEN HeadCommit
                  ELSE IF ResolvesLocal(w, R, start) THEN w.br[R][start].commit
                  ELSE RemoteCommit(start)
        upstream == IF start # <<>> /\ ~ResolvesLocal(w, R, start) THEN start ELSE NoUpstream
        wb == [w EXCEPT !.br = [w.br EXCEPT ![R] =
                  [b \in LocalBranches(w, R) \cup {new} |->
                      IF b = new THEN [commit |-> commit, upstream |-> upstream]
                      ELSE w.br[R][b]]]]
    IN  IF ~resolves \/ new \in LocalBranches(w, R) THEN [ok |-> FALSE, w |-> w]
        ELSE IF ~CandidatePathOk(w, R, path) THEN [ok |-> FALSE, w |-> wb]
        ELSE [ok |-> TRUE, w |-> CheckOut(wb, R, path, new)]

\* git worktree add <path> <branch>
GitWorktreeAddExisting(w, R, path, branch) ==
    IF /\ branch \in LocalBranches(w, R)
       /\ branch \notin CheckedOut(w, R)
       /\ CandidatePathOk(w, R, path)
    THEN [ok |-> TRUE, w |-> CheckOut(w, R, path, branch)]
    ELSE [ok |-> FALSE, w |-> w]

\* git worktree remove <path>, never with --force
GitWorktreeRemove(w, R, path) ==
    IF path \notin Registered(w, R) THEN [ok |-> FALSE, w |-> w]
    ELSE IF path \in DOMAIN w.fs /\ (w.fs[path].git # R \/ w.fs[path].dirty)
    THEN [ok |-> FALSE, w |-> w]
    ELSE [ok |-> TRUE,
          w |-> [w EXCEPT !.fs = RemoveTree(w.fs, path),
                          !.reg = [w.reg EXCEPT ![R] =
                                      [q \in Registered(w, R) \ {path} |-> w.reg[R][q]]]]]

\* one line of `git worktree list`: path, abbreviated hash, branch
ListLine(path, branch) == path \o <<" ", " ", "h", " ", "[">> \o branch \o <<"]", "\n">>

RECURSIVE ListLines(_, _, _)
ListLines(w, R, paths) ==
    IF paths = <<>> THEN <<>>
    ELSE ListLine(Head(paths), w.reg[R][Head(paths)]) \o ListLines(w, R, Tail(paths))

\* stdout of `git worktree list`: the main checkout first, then the linked ones by path
GitWorktreeListStdout(w, R) ==
    ListLine(RepoRoot(R), MainBranch) \o ListLines(w, R, Sorted(Registered(w, R)))

(***************************************************************************)
(* src/vibe/git_ops.py                                                     *)
(***************************************************************************)
EXISTS_VALID == "exists_valid"
EXISTS_INVALID == "exists_invalid"
NOT_EXISTS == "not_exists"

\* check_worktree_exists(worktree_name, repo_name, worktree_base, cwd)
check_worktree_exists(w, name, rn, R) ==
    LET worktree_path == Join(Join(WorktreeBase, rn), name)
    IN  IF ~IsDir(w.fs, worktree_path) THEN NOT_EXISTS
        ELSE IF Contains(GitWorktreeListStdout(w, R), worktree_path) THEN EXISTS_VALID
        ELSE EXISTS_INVALID

\* show-ref run on refs/remotes/origin/ instead of refs/heads/
branch_exists_local_remoteRef(w, R, branch) == branch \in RemoteBranches

\* git show-ref --verify --quiet refs/heads/<branch>
branch_exists_local(w, R, branch) == branch \in LocalBranches(w, R)

\* normalises the name: with or without the origin/ prefix
branch_exists_remote(w, R, branch) ==
    LET ref == IF ~StartsWith(branch, OriginPrefix) THEN OriginPrefix \o branch ELSE branch
    IN  SubSeq(ref, Len(OriginPrefix) + 1, Len(ref)) \in RemoteBranches

\* has_uncommitted_changes(worktree_path): git status in a directory that is no
\* working tree prints nothing
has_uncommitted_changes(w, path) ==
    IF ~IsDir(w.fs, path) THEN FALSE
    ELSE path \in DOMAIN w.fs /\ w.fs[path].git # NoRepo /\ w.fs[path].dirty

\* get_worktree_list(cwd): the paths of `git worktree list --porcelain`
get_worktree_list(w, R) == <<RepoRoot(R)>> \o Sorted(Registered(w, R))

\* get_git_common_dir(worktree_path).parent: the original repository, or NoRepo
get_git_common_dir(w, path) == w.fs[path].git

\* outcomes of create_worktree
Created == "created"
RemoteBranchNotFound == "RemoteBranchNotFound"
BaseBranchNotFound == "BaseBranchNotFound"
WorktreeCreationFailed == "WorktreeCreationFailed"

\* get_local_branches(cwd) / get_remote_branches(cwd) (the latter keep "origin/")
get_local_branches(w, R) == Sorted(LocalBranches(w, R))
get_remote_branches(w, R) == Sorted({OriginPrefix \o b : b \in RemoteBranches})

\* the three scenarios of create_worktree
FromRemote == "remote"
FromExisting == "existing"
NewBranch == "new"

\* the prefix left on: worktree_name[7:] forgotten
LocalBranchName_unstripped(name) == name

\* local_branch_name = worktree_name[7:]
LocalBranchName(name) == SubSeq(name, Len(OriginPrefix) + 1, Len(name))

\* scenario 1: git worktree add -b <local> <path> origin/<local>
AddFromRemote(w, R, local_branch_name, worktree_path, name) ==
    GitWorktreeAddNewBranch(w, R, local_branch_name, worktree_path, name)

\* scenario 2 run with -b, as if the branch were new
AddExistingBranch_dashB(w, R, worktree_path, name) ==
    GitWorktreeAddNewBranch(w, R, name, worktree_path, <<>>)

\* scenario 2: git worktree add <path> <branch>
AddExistingBranch(w, R, worktree_path, name) ==
    GitWorktreeAddExisting(w, R, worktree_path, name)

\* the validation with one `not` dropped
BaseBranchMissing_dropsNot(w, R, base) ==
    ~branch_exists_local(w, R, base) /\ branch_exists_remote(w, R, base)

\* not branch_exists_local(base_branch) and not branch_exists_remote(base_branch)
BaseBranchMissing(w, R, base) ==
    ~branch_exists_local(w, R, base) /\ ~branch_exists_remote(w, R, base)

\* scenario 3 run without -b
AddNewBranch_noDashB(w, R, name, worktree_path, base) ==
    GitWorktreeAddExisting(w, R, worktree_path, name)

\* scenario 3: git worktree add -b <name> <path> [<base>]
AddNewBranch(w, R, name, worktree_path, base) ==
    GitWorktreeAddNewBranch(w, R, name, worktree_path, base)

\* create_worktree(worktree_name, repo_name, base_branch, worktree_base, cwd):
\* the new world, the path returned (or aimed at), the outcome, the scenario taken
\* and the branch lists an error message enumerates
create_worktree(w, name, rn, base, R) ==
    LET repo_worktree_dir == Join(WorktreeBase, rn)
        w1 == [w EXCEPT !.fs = MkdirP(w.fs, repo_worktree_dir)]
        Outcome(res, path, scenario) ==
            [w |-> res.w, path |-> path, scenario |-> scenario, listed |-> <<>>,
             result |-> IF res.ok THEN Created ELSE WorktreeCreationFailed]
    IN  IF StartsWith(name, OriginPrefix)
        THEN LET local_branch_name == LocalBranchName(name)
                 worktree_path == Join(repo_worktree_dir, local_branch_name)
             IN  IF ~branch_exists_remote(w1, R, name)
                 THEN [w |-> w1, path |-> worktree_path, scenario |-> FromRemote,
                       listed |-> <<get_remote_branches(w1, R)>>,
                       result |-> RemoteBranchNotFound]
                 ELSE Outcome(AddFromRemote(w1, R, local_branch_name, worktree_path, name),
                              worktree_path, FromRemote)
        ELSE LET worktree_path == Join(repo_worktree_dir, name)
             IN  IF branch_exists_local(w1, R, name)
                 THEN Outcome(AddExistingBranch(w1, R, worktree_path, name),
                              worktree_path, FromExisting)
                 ELSE IF base # <<>>
                 THEN IF BaseBranchMissing(w1, R, base)
                      THEN [w |-> w1, path |-> worktree_path, scenario |-> NewBranch,
                            listed |-> <<get_local_branches(w1, R), get_remote_branches(w1, R)>>,
                            result |-> BaseBranchNotFound]
                      ELSE Outcome(AddNewBranch(w1, R, name, worktree_path, base),
                                   worktree_path, NewBranch)
                 ELSE Outcome(AddNewBranch(w1, R, name, worktree_path, <<>>),
                              worktree_path, NewBranch)

(***************************************************************************)
(* src/vibe/utils.py and src/vibe/cleanup.py.  Besides the new world, each *)
(* removal reports which directories went through `git worktree remove`    *)
(* (viaGit) and which were deleted on the filesystem directly (direct).    *)
(***************************************************************************)
\* junk files counted as entries
is_directory_empty_countsJunk(f, d) ==
    IF ~IsDir(f, d) THEN FALSE
    ELSE ChildDirs(f, d) = {} /\ (d \in DOMAIN f => NoEntries(f, d))

\* is_directory_empty(directory): no entry besides junk files
is_directory_empty(f, d) ==
    IF ~IsDir(f, d) THEN FALSE
    ELSE ChildDirs(f, d) = {} /\ (d \in DOMAIN f => f[d].git = NoRepo /\ ~f[d].files)

\* the `for junk in JUNK_FILES: unlink` loop followed by directory.rmdir()
UnlinkJunkAndRmdir(f, d) == RemoveTree(f, d)

REMOVED == 0
FAILED == 1
REMOVED_WITH_PARENT == 2

\* a repo_root argument that is no directory
MissingRoot == "missing"

\* remove_worktree without the reclaiming of the emptied parent directory
remove_worktree_keepsParent(w, worktree_path, repo_root) ==
    IF repo_root = MissingRoot
    THEN [w |-> w, result |-> FAILED, viaGit |-> {}, direct |-> {}]
    ELSE LET res == GitWorktreeRemove(w, repo_root, worktree_path)
         IN  IF ~res.ok
             THEN [w |-> w, result |-> FAILED, viaGit |-> {}, direct |-> {}]
             ELSE [w |-> res.w, result |-> REMOVED,
                   viaGit |-> Subtree(w.fs, worktree_path), direct |-> {}]

\* remove_worktree(worktree_path, repo_root)
remove_worktree(w, worktree_path, repo_root) ==
    IF repo_root = MissingRoot
    THEN [w |-> w, result |-> FAILED, viaGit |-> {}, direct |-> {}]
    ELSE LET res == GitWorktreeRemove(w, repo_root, worktree_path)
             gone == Subtree(w.fs, worktree_path)
             parent_dir == Parent(worktree_path)
         IN  IF ~res.ok
             THEN [w |-> w, result |-> FAILED, viaGit |-> {}, direct |-> {}]
             ELSE IF is_directory_empty(res.w.fs, parent_dir)
             THEN [w |-> [res.w EXCEPT !.fs = UnlinkJunkAndRmdir(res.w.fs, parent_dir)],
                   result |-> REMOVED_WITH_PARENT, viaGit |-> gone, direct |-> {parent_dir}]
             ELSE [w |-> res.w, result |-> REMOVED, viaGit |-> gone, direct |-> {}]

\* the failed rmdir not noticed: REMOVED_WITH_PARENT although the parent stays
remove_worktree_oserror_unnoticed(w, worktree_path, repo_root) ==
    LET c == remove_worktree(w, worktree_path, repo_root)
        res == GitWorktreeRemove(w, repo_root, worktree_path)
    IN  IF c.result # REMOVED_WITH_PARENT THEN c
        ELSE [w |-> [res.w EXCEPT !.fs[Parent(worktree_path)].junk = FALSE],
              result |-> REMOVED_WITH_PARENT, viaGit |-> c.viaGit, direct |-> {}]

\* remove_worktree in a run where parent_dir.rmdir() raises OSError: the junk
\* files are unlinked already, the error is swallowed and the result is REMOVED
remove_worktree_oserror(w, worktree_path, repo_root) ==
    LET c == remove_worktree(w, worktree_path, repo_root)
        parent_dir == Parent(worktree_path)
        res == GitWorktreeRemove(w, repo_root, worktree_path)
    IN  IF c.result # REMOVED_WITH_PARENT THEN c
        ELSE [w |-> [res.w EXCEPT !.fs[parent_dir].junk = FALSE],
              result |-> REMOVED, viaGit |-> c.viaGit, direct |-> {}]

\* cleanup_lingering_directory that only removes empty directories
cleanup_lingering_directory_onlyEmpty(w, directory) ==
    IF is_directory_empty(w.fs, directory)
    THEN [w |-> [w EXCEPT !.fs = UnlinkJunkAndRmdir(w.fs, directory)],
          ok |-> TRUE, direct |-> {directory}]
    ELSE [w |-> w, ok |-> FALSE, direct |-> {}]

\* cleanup_lingering_directory(directory): rmdir when empty, shutil.rmtree otherwise
cleanup_lingering_directory(w, directory) ==
    IF is_directory_empty(w.fs, directory)
    THEN [w |-> [w EXCEPT !.fs = UnlinkJunkAndRmdir(w.fs, directory)],
          ok |-> TRUE, direct |-> {directory}]
    ELSE [w |-> [w EXCEPT !.fs = RemoveTree(w.fs, directory)],
          ok |-> TRUE, direct |-> Subtree(w.fs, directory)]

\* CleanupStats()
ZeroStats == [cleaned |-> 0, skipped |-> 0, lingering |-> 0, failed |-> 0]

\* the accumulator of one clean_all_worktrees pass
StartPass(w) ==
    [w |-> w, stats |-> ZeroStats, valid |-> {}, skippedPaths |-> {},
     cleanedPaths |-> {}, failedPaths |-> {},
     lingeringPaths |-> {}, viaGit |-> {}, direct |-> {}]

\* lines 171-199: the loop over the original repository's worktree list
RECURSIVE ProcessWorktreeList(_, _, _, _)
ProcessWorktreeList(acc, worktree_list, original_repo, repo_dir) ==
    IF worktree_list = <<>> THEN acc
    ELSE
      LET worktree_path == Head(worktree_list)
          rest == Tail(worktree_list)
      IN  IF ~IsRelativeTo(worktree_path, repo_dir)
          THEN ProcessWorktreeList(acc, rest, original_repo, repo_dir)
          ELSE
            LET acc1 == [acc EXCEPT !.valid = @ \cup {worktree_path}]
            IN  IF has_uncommitted_changes(acc1.w, worktree_path)
                THEN ProcessWorktreeList(
                       [acc1 EXCEPT !.stats.skipped = @ + 1,
                                    !.skippedPaths = @ \cup {worktree_path}],
                       rest, original_repo, repo_dir)
                ELSE
                  LET rm == remove_worktree(acc1.w, worktree_path, original_repo)
                  IN  IF rm.result \in {REMOVED, REMOVED_WITH_PARENT}
                      THEN ProcessWorktreeList(
                             [acc1 EXCEPT !.w = rm.w, !.stats.cleaned = @ + 1,
                                          !.cleanedPaths = @ \cup {worktree_path},
                                          !.viaGit = @ \cup rm.viaGit,
                                          !.direct = @ \cup rm.direct],
                             rest, original_repo, repo_dir)
                      ELSE ProcessWorktreeList(
                             [acc1 EXCEPT !.stats.failed = @ + 1,
                                          !.failedPaths = @ \cup {worktree_path}],
                             rest, original_repo, repo_dir)

\* lines 206-220: the loop over the directories left under repo_dir
RECURSIVE LingeringPass(_, _)
LingeringPass(acc, subdirs) ==
    IF subdirs = <<>> THEN acc
    ELSE
      LET subdir == Head(subdirs)
      IN  IF subdir \in acc.valid
          THEN LingeringPass(acc, Tail(subdirs))
          ELSE
            LET c == cleanup_lingering_directory(acc.w, subdir)
            IN  LingeringPass(
                  [acc EXCEPT !.w = c.w,
                              !.stats.lingering = IF c.ok THEN @ + 1 ELSE @,
                              !.lingeringPaths = IF c.ok THEN @ \cup {subdir} ELSE @,
                              !.direct = @ \cup c.direct],
                  Tail(subdirs))

\* lines 154-165: the original repositories the scan of repo_dir can discover first
\* (iterdir() order is the filesystem's)
Discoverable(f, repo_dir) == {f[c].git : c \in {d \in ChildDirs(f, repo_dir) : f[d].git # NoRepo}}

\* lines 143-233: the body of the loop, for one repository directory
CleanRepoDir(acc0, repo_dir, original_repo) ==
    LET acc == [acc0 EXCEPT !.valid = {}]
        acc1 == IF original_repo # NoRepo
                THEN ProcessWorktreeList(acc, get_worktree_list(acc.w, original_repo),
                                         original_repo, repo_dir)
                ELSE acc
    IN  IF ~IsDir(acc1.w.fs, repo_dir) THEN acc1
        ELSE
          LET acc2 == LingeringPass(acc1, Sorted(ChildDirs(acc1.w.fs, repo_dir)))
          IN  IF is_directory_empty(acc2.w.fs, repo_dir)
              THEN [acc2 EXCEPT !.w.fs = UnlinkJunkAndRmdir(acc2.w.fs, repo_dir),
                                !.direct = @ \cup {repo_dir}]
              ELSE acc2

RECURSIVE CleanRepoDirs(_, _, _)
CleanRepoDirs(acc, repo_dirs, discovered) ==
    IF repo_dirs = <<>> THEN acc
    ELSE CleanRepoDirs(CleanRepoDir(acc, Head(repo_dirs), discovered[Head(repo_dirs)]),
                       Tail(repo_dirs), discovered)

\* clean_all_worktrees(worktree_base); discovered[d] is the original repository the
\* scan of d finds first
clean_all_worktrees(w, discovered) ==
    CleanRepoDirs(StartPass(w), Sorted(ChildDirs(w.fs, WorktreeBase)), discovered)

\* clean_specific_worktree with the uncommitted-changes check dropped and the
\* removal forced (git worktree remove --force)
clean_specific_worktree_forced(w, name, rn, repo_root) ==
    LET worktree_path == Join(Join(WorktreeBase, rn), name)
        Refuse == [w |-> w, result |-> FALSE, viaGit |-> {}, direct |-> {}, removed |-> FALSE]
    IN  IF ~IsDir(w.fs, worktree_path) THEN Refuse
        ELSE IF worktree_path \notin Range(get_worktree_list(w, repo_root)) THEN Refuse
        ELSE [w |-> [w EXCEPT !.fs = RemoveTree(w.fs, worktree_path),
                              !.reg = [w.reg EXCEPT ![repo_root] =
                                          [q \in Registered(w, repo_root) \ {worktree_path} |->
                                              w.reg[repo_root][q]]]],
              result |-> TRUE, viaGit |-> Subtree(w.fs, worktree_path), direct |-> {},
              removed |-> TRUE]

\* clean_specific_worktree(worktree_name, repo_name, repo_root, worktree_base)
clean_specific_worktree(w, name, rn, repo_root) ==
    LET worktree_path == Join(Join(WorktreeBase, rn), name)
        Refuse == [w |-> w, result |-> FALSE, viaGit |-> {}, direct |-> {}, removed |-> FALSE]
    IN  IF ~IsDir(w.fs, worktree_path) THEN Refuse
        ELSE IF worktree_path \notin Range(get_worktree_list(w, repo_root)) THEN Refuse
        ELSE IF has_uncommitted_changes(w, worktree_path) THEN Refuse
        ELSE LET rm == remove_worktree(w, worktree_path, repo_root)
             IN  [w |-> rm.w, result |-> rm.result \in {REMOVED, REMOVED_WITH_PARENT},
                  viaGit |-> rm.viaGit, direct |-> rm.direct,
                  removed |-> rm.result # FAILED]

(***************************************************************************)
(* src/vibe/cli.py                                                         *)
(***************************************************************************)
Aborted == "abort"

\* setup_worktree that treats EXISTS_INVALID like NOT_EXISTS and goes on to create
setup_worktree_overInvalid(w, name, from_branch, rn, R, confirm) ==
    LET status == check_worktree_exists(w, name, rn, R)
        c == create_worktree(w, name, rn, from_branch, R)
    IN  IF status = EXISTS_VALID
        THEN [w |-> w, result |-> IF from_branch # <<>> /\ ~confirm THEN Aborted ELSE TRUE,
              calledCreate |-> FALSE, path |-> Join(Join(WorktreeBase, rn), name),
              status |-> status]
        ELSE [w |-> c.w, result |-> c.result = Created, calledCreate |-> TRUE,
              path |-> c.path, status |-> status]

\* setup_worktree(worktree_name, from_branch, repo_name, cwd); confirm is the
\* operator's answer to "Continue anyway?"
setup_worktree(w, name, from_branch, rn, R, confirm) ==
    LET status == check_worktree_exists(w, name, rn, R)
        Answer(res) == [w |-> w, result |-> res, calledCreate |-> FALSE,
                        path |-> Join(Join(WorktreeBase, rn), name), status |-> status]
    IN  IF status = EXISTS_INVALID THEN Answer(FALSE)
        ELSE IF status = EXISTS_VALID
        THEN IF from_branch # <<>> /\ ~confirm THEN Answer(Aborted) ELSE Answer(TRUE)
        ELSE LET c == create_worktree(w, name, rn, from_branch, R)
             IN  [w |-> c.w, result |-> c.result = Created, calledCreate |-> TRUE,
                  path |-> c.path, status |-> status]

(***************************************************************************)
(* src/vibe/config.py and src/vibe/connection.py: the remote command       *)
(* builder.  Commands are strings, kept as sequences of characters so that *)
(* quoting, replacement and substring tests are computed.                  *)
(***************************************************************************)
\* Python's None
None == "None"

\* Platform, as detect_platform() returns it
Platform_MACOS == "macos"
Platform_WSL == "wsl"
Platforms == {Platform_MACOS, Platform_WSL}

\* Shell, the dialect of a Windows remote; None is the macOS (POSIX) remote
Shell_WSL == "WSL"
Shell_POWERSHELL == "POWERSHELL"
RemoteShells == {None, Shell_WSL, Shell_POWERSHELL}

\* the configuration bundle the detected platform selects
REMOTE_REPO_BASE(platform) ==
    IF platform = Platform_MACOS THEN <<"/", "V", "o", "l", "u", "m", "e", "s", "/", "E", "x", "t", "e", "r", "n", "a", "l", "/", "R", "e", "p", "o", "s", "i", "t", "o", "r", "i", "e", "s">> ELSE <<"/", "m", "n", "t", "/", "z">>

SSH_USER_HOST(platform) ==
    IF platform = Platform_MACOS THEN <<"a", "d", "m", "i", "n", "@", "v", "i", "b", "e", "c", "o", "d", "i", "n", "g", ".", "l", "o", "c", "a", "l">> ELSE <<"a", "d", "m", "i", "n", "@", "1", "7", "2", ".", "2", "1", ".", "0", ".", "1", "0">>

UNLOCK_KEYCHAIN(platform) == platform = Platform_MACOS

\* an absent (None) or empty command string: both are false in `a and b`
NoCommand == <<>>

\* "security -v unlock-keychain -p admin ~/Library/Keychains/login.keychain-db"
KEYCHAIN_COMMAND(platform) ==
    IF platform = Platform_MACOS
    THEN <<"s", "e", "c", "u", "r", "i", "t", "y", " ", "-", "v", " ", "u", "n", "l", "o", "c", "k", "-", "k", "e", "y", "c", "h", "a", "i", "n", " ", "-", "p", " ", "a", "d", "m", "i", "n", " ", "~", "/", "L", "i", "b", "r", "a", "r", "y", "/", "K", "e", "y", "c", "h", "a", "i", "n", "s", "/", "l", "o", "g", "i", "n", ".", "k", "e", "y", "c", "h", "a", "i", "n", "-", "d", "b">>
    ELSE NoCommand

REMOTE_IS_WINDOWS(platform) == platform # Platform_MACOS

DEFAULT_REMOTE_SHELL(platform) == IF platform = Platform_MACOS THEN None ELSE Shell_WSL

\* REMOTE_REPO_BASE / "_vibecoding"
REMOTE_WORKTREE_BASE(platform) == Join(REMOTE_REPO_BASE(platform), <<"_", "v", "i", "b", "e", "c", "o", "d", "i", "n", "g">>)

\* Path.home() / ".ssh" / "id_vibecoding"
SSH_KEY_PATH == <<"~", "/", ".", "s", "s", "h", "/", "i", "d", "_", "v", "i", "b", "e", "c", "o", "d", "i", "n", "g">>

CLAUDE_CODE_CMD == <<"c", "l", "y">>
CODEX_CMD == <<"c", "d", "x">>
OPEN_CODE_CMD == <<"o", "p", "e", "n", "c", "o", "d", "e">>
CLAUDE_CODE_DIRECT_CMD == <<"c", "l", "a", "u", "d", "e", " ", "-", "-", "d", "a", "n", "g", "e", "r", "o", "u", "s", "l", "y", "-", "s", "k", "i", "p", "-", "p", "e", "r", "m", "i", "s", "s", "i", "o", "n", "s">>
CODEX_DIRECT_CMD == <<"c", "o", "d", "e", "x", " ", "-", "-", "d", "a", "n", "g", "e", "r", "o", "u", "s", "l", "y", "-", "b", "y", "p", "a", "s", "s", "-", "a", "p", "p", "r", "o", "v", "a", "l", "s", "-", "a", "n", "d", "-", "s", "a", "n", "d", "b", "o", "x">>
OPEN_CODE_DIRECT_CMD == <<"o", "p", "e", "n", "c", "o", "d", "e">>

\* str.replace(old, new) for a one-character old, by halves
RECURSIVE Replace(_, _, _)
Replace(s, old, new) ==
    IF s = <<>> THEN <<>>
    ELSE IF Len(s) = 1 THEN (IF s[1] = old THEN new ELSE s)
    ELSE LET h == Len(s) \div 2
         IN  Replace(SubSeq(s, 1, h), old, new) \o Replace(SubSeq(s, h + 1, Len(s)), old, new)

\* sep.join(parts)
RECURSIVE JoinStr(_, _)
JoinStr(sep, parts) ==
    IF parts = <<>> THEN <<>>
    ELSE IF Len(parts) = 1 THEN parts[1]
    ELSE parts[1] \o sep \o JoinStr(sep, Tail(parts))

LowerCase == <<"a", "b", "c", "d", "e", "f", "g", "h", "i", "j", "k", "l", "m", "n", "o", "p", "q", "r", "s", "t", "u", "v", "w", "x", "y", "z">>
UpperCase == <<"A", "B", "C", "D", "E", "F", "G", "H", "I", "J", "K", "L", "M", "N", "O", "P", "Q", "R", "S", "T", "U", "V", "W", "X", "Y", "Z">>
Digits == <<"0", "1", "2", "3", "4", "5", "6", "7", "8", "9">>

\* str.upper()
Upper(s) ==
    [i \in 1..Len(s) |->
        IF \E k \in 1..Len(LowerCase) : LowerCase[k] = s[i]
        THEN UpperCase[CHOOSE k \in 1..Len(LowerCase) : LowerCase[k] = s[i]]
        ELSE s[i]]

\* the characters shlex.quote leaves unquoted: [a-zA-Z0-9_@%+=:,./-]
SafeChars == Range(LowerCase) \cup Range(UpperCase) \cup Range(Digits) \cup Range(<<"_", "@", "%", "+", "=", ":", ",", ".", "/", "-">>)

\* shlex.quote(s)
shlex_quote(s) ==
    IF s = <<>> THEN <<"'", "'">>
    ELSE IF \A i \in 1..Len(s) : s[i] \in SafeChars THEN s
    ELSE <<"'">> \o Replace(s, "'", <<"'", "\"", "'", "\"", "'">>) \o <<"'">>

\* escape_shell_path(path): shlex.quote(str(path))
escape_shell_path(path) == shlex_quote(path)

\* the components of a string between slashes, empty ones dropped
RECURSIVE Components(_)
Components(s) ==
    IF s = <<>> THEN <<>>
    ELSE IF \A i \in 1..Len(s) : s[i] # "/" THEN <<s>>
    ELSE LET k == CHOOSE i \in 1..Len(s) :
                      s[i] = "/" /\ \A j \in 1..(i - 1) : s[j] # "/"
             first == SubSeq(s, 1, k - 1)
         IN  (IF first = <<>> THEN <<>> ELSE <<first>>)
             \o Components(SubSeq(s, k + 1, Len(s)))

\* Path.parts: the root "/" of an absolute path, then its components
PathParts(path) ==
    (IF path # <<>> /\ Head(path) = "/" THEN <<Slash>> ELSE <<>>) \o Components(path)

\* a drive path without the last "\" added
wsl_path_to_windows_bareDrive(path) ==
    LET parts == PathParts(path)
    IN  IF Len(parts) >= 3 /\ parts[2] = <<"m", "n", "t">>
        THEN LET drive == Upper(parts[3])
                 rest == JoinStr(<<"\\">>, SubSeq(parts, 4, Len(parts)))
             IN  IF rest # <<>> THEN drive \o <<":">> \o rest ELSE drive \o <<":">>
        ELSE path

\* wsl_path_to_windows(path): /mnt/x/... to X:\...
wsl_path_to_windows(path) ==
    LET parts == PathParts(path)
    IN  IF Len(parts) >= 3 /\ parts[2] = <<"m", "n", "t">>
        THEN LET drive == Upper(parts[3])
                 rest == JoinStr(<<"\\">>, SubSeq(parts, 4, Len(parts)))
             IN  IF rest # <<>> THEN drive \o <<":", "\\">> \o rest ELSE drive \o <<":", "\\">>
        ELSE path

\* build_ssh_command(ssh_key, user_host)
build_ssh_command(ssh_key, user_host) == <<<<"s", "s", "h">>, <<"-", "i">>, ssh_key, user_host, <<"-", "t">>>>

\* export TMPDIR=$(mktemp -d)
TmpdirSetup == <<"e", "x", "p", "o", "r", "t", " ", "T", "M", "P", "D", "I", "R", "=", "$", "(", "m", "k", "t", "e", "m", "p", " ", "-", "d", ")">>

\* build_remote_setup_commands(worktree_path, unlock_keychain, keychain_command)
build_remote_setup_commands(worktree_path, unlock_keychain, keychain_command) ==
    LET escaped_path == escape_shell_path(worktree_path)
        commands == <<<<"c", "d", " ">> \o escaped_path>>
                    \o (IF unlock_keychain /\ keychain_command # NoCommand
                        THEN <<keychain_command>> ELSE <<>>)
                    \o <<TmpdirSetup>>
    IN  JoinStr(<<" ", "&", "&", " ">>, commands)

\* _wrap_for_wsl(inner_cmd)
_wrap_for_wsl(inner_cmd) ==
    LET escaped_inner == Replace(inner_cmd, "'", <<"'", "'">>)
    IN  <<"w", "s", "l", " ", "-", "e", " ", "z", "s", "h", " ", "-", "l", " ", "-", "i", " ", "-", "c", " ", "'">> \o escaped_inner \o <<"'">>

\* the WSL branch chaining the POSIX setup, keychain unlock included
_build_remote_cmd_for_path_wslSetup(remote_path, with_coding_tool, coding_tool, remote_shell, platform) ==
    IF remote_shell = Shell_POWERSHELL
    THEN JoinStr(<<";", " ">>, <<<<"c", "d", " ", "'">> \o wsl_path_to_windows(remote_path) \o <<"'">>,
                        IF with_coding_tool THEN coding_tool ELSE <<"p", "o", "w", "e", "r", "s", "h", "e", "l", "l">>>>)
    ELSE LET setup == build_remote_setup_commands(remote_path, TRUE,
                          KEYCHAIN_COMMAND(Platform_MACOS))
         IN  IF remote_shell = Shell_WSL
             THEN _wrap_for_wsl(JoinStr(<<" ", "&", "&", " ">>,
                     <<setup, IF with_coding_tool THEN coding_tool ELSE <<"e", "x", "e", "c", " ", "z", "s", "h">>>>))
             ELSE IF with_coding_tool
                  THEN setup \o <<" ", "&", "&", " ", "z", "s", "h", " ", "-", "l", " ", "-", "i", " ", "-", "c", " ">> \o shlex_quote(coding_tool)
                  ELSE setup \o <<" ", "&", "&", " ", "z", "s", "h", " ", "-", "l", " ", "-", "i">>

\* the builder with the with_coding_tool branch taken whatever the flag says
_build_remote_cmd_for_path_toolAlways(remote_path, with_coding_tool, coding_tool, remote_shell, platform) ==
    IF remote_shell = Shell_POWERSHELL
    THEN JoinStr(<<";", " ">>, <<<<"c", "d", " ", "'">> \o wsl_path_to_windows(remote_path) \o <<"'">>, coding_tool>>)
    ELSE IF remote_shell = Shell_WSL
    THEN _wrap_for_wsl(JoinStr(<<" ", "&", "&", " ">>, <<<<"c", "d", " ">> \o escape_shell_path(remote_path), TmpdirSetup,
                                          coding_tool>>))
    ELSE build_remote_setup_commands(remote_path, UNLOCK_KEYCHAIN(platform),
                                     KEYCHAIN_COMMAND(platform))
             \o <<" ", "&", "&", " ", "z", "s", "h", " ", "-", "l", " ", "-", "i", " ", "-", "c", " ">> \o shlex_quote(coding_tool)

\* _build_remote_cmd_for_path(remote_path, with_coding_tool, coding_tool, remote_shell);
\* platform selects the defaults build_remote_setup_commands falls back on
_build_remote_cmd_for_path(remote_path, with_coding_tool, coding_tool, remote_shell, platform) ==
    IF remote_shell = Shell_POWERSHELL
    THEN LET win_path == wsl_path_to_windows(remote_path)
             parts == <<<<"c", "d", " ", "'">> \o win_path \o <<"'">>,
                        IF with_coding_tool THEN coding_tool ELSE <<"p", "o", "w", "e", "r", "s", "h", "e", "l", "l">>>>
         IN  JoinStr(<<";", " ">>, parts)
    ELSE IF remote_shell = Shell_WSL
    THEN LET escaped_path == escape_shell_path(remote_path)
             inner_parts == <<<<"c", "d", " ">> \o escaped_path, TmpdirSetup,
                              IF with_coding_tool THEN coding_tool ELSE <<"e", "x", "e", "c", " ", "z", "s", "h">>>>
             inner_cmd == JoinStr(<<" ", "&", "&", " ">>, inner_parts)
         IN  _wrap_for_wsl(inner_cmd)
    ELSE LET setup == build_remote_setup_commands(remote_path, UNLOCK_KEYCHAIN(platform),
                                                  KEYCHAIN_COMMAND(platform))
         IN  IF with_coding_tool
             THEN setup \o <<" ", "&", "&", " ", "z", "s", "h", " ", "-", "l", " ", "-", "i", " ", "-", "c", " ">> \o shlex_quote(coding_tool)
             ELSE setup \o <<" ", "&", "&", " ", "z", "s", "h", " ", "-", "l", " ", "-", "i">>

(***************************************************************************)
(* src/vibe/connection.py: the connection layer.  env is what the          *)
(* functions find outside: the key files that exist, the exit code the     *)
(* spawned process will end with, the detected platform.  Each function    *)
(* returns the processes it spawned (argv and cwd) and its return code.    *)
(***************************************************************************)
\* a validation that accepts any key path
validate_ssh_key_unchecked(env, ssh_key) == TRUE

\* validate_ssh_key(ssh_key): ssh_key.exists()
validate_ssh_key(env, ssh_key) == ssh_key \in env.keys

\* subprocess.run(argv, cwd=cwd); NoCwd when no cwd is passed
NoCwd == <<>>
Spawn(argv, cwd) == [argv |-> argv, cwd |-> cwd]

\* what a connect function hands back: spawned processes, return code, whether
\* _print_ssh_failure printed its hint
Returned(spawned, returncode, hint) ==
    [spawned |-> spawned, returncode |-> returncode, hint |-> hint]

\* the ssh failure sentinel 255 turned into the generic error code
RunSsh_hintAsError(env, ssh_cmd) ==
    Returned(<<Spawn(ssh_cmd, NoCwd)>>, IF env.returncode = 255 THEN 1 ELSE env.returncode,
             env.returncode = 255)

\* lines 218-227 and their copies: run ssh, hint on 255, return the code unchanged
RunSsh(env, ssh_cmd) ==
    Returned(<<Spawn(ssh_cmd, NoCwd)>>, env.returncode, env.returncode = 255)

\* connect_to_remote(repo_name, worktree_name, with_coding_tool, ssh_key, user_host,
\*                   remote_base, coding_tool, remote_shell)
connect_to_remote(env, repo_name, worktree_name, with_coding_tool, ssh_key, user_host, remote_base, coding_tool, remote_shell) ==
    IF ~validate_ssh_key(env, ssh_key) THEN Returned(<<>>, 1, FALSE)
    ELSE LET remote_path == Join(Join(remote_base, repo_name), worktree_name)
             remote_cmd == _build_remote_cmd_for_path(remote_path, with_coding_tool,
                                                      coding_tool, remote_shell, env.platform)
             ssh_cmd == Append(build_ssh_command(ssh_key, user_host), remote_cmd)
         IN  RunSsh(env, ssh_cmd)

\* the home command without the temporary-directory setup
home_remote_cmd_noTmpdir(unlock_keychain, keychain_command, remote_shell) ==
    IF remote_shell = Shell_POWERSHELL THEN <<>>
    ELSE IF remote_shell = Shell_WSL THEN <<<<"w", "s", "l", " ", "-", "e", " ", "z", "s", "h", " ", "-", "l", " ", "-", "i">>>>
    ELSE <<JoinStr(<<" ", "&", "&", " ">>,
                   (IF unlock_keychain /\ keychain_command # NoCommand
                    THEN <<keychain_command>> ELSE <<>>)
                   \o <<<<"z", "s", "h", " ", "-", "l", " ", "-", "i">>>>)>>

\* lines 255-268: remote_cmd of connect_to_remote_home, <<>> for None
home_remote_cmd(unlock_keychain, keychain_command, remote_shell) ==
    IF remote_shell = Shell_POWERSHELL THEN <<>>
    ELSE IF remote_shell = Shell_WSL THEN <<<<"w", "s", "l", " ", "-", "e", " ", "z", "s", "h", " ", "-", "l", " ", "-", "i">>>>
    ELSE LET commands == (IF unlock_keychain /\ keychain_command # NoCommand
                          THEN <<keychain_command>> ELSE <<>>)
                         \o <<TmpdirSetup, <<"z", "s", "h", " ", "-", "l", " ", "-", "i">>>>
         IN  <<JoinStr(<<" ", "&", "&", " ">>, commands)>>

\* connect_to_remote_home(ssh_key, user_host, unlock_keychain, keychain_command, remote_shell)
connect_to_remote_home(env, ssh_key, user_host, unlock_keychain, keychain_command, remote_shell) ==
    IF ~validate_ssh_key(env, ssh_key) THEN Returned(<<>>, 1, FALSE)
    ELSE LET remote_cmd == home_remote_cmd(unlock_keychain, keychain_command, remote_shell)
             ssh_cmd == build_ssh_command(ssh_key, user_host) \o remote_cmd
         IN  RunSsh(env, ssh_cmd)

\* connect_locally(worktree_path, coding_tool)
connect_locally(w, env, worktree_path, coding_tool) ==
    IF ~IsDir(w.fs, worktree_path) THEN Returned(<<>>, 1, FALSE)
    ELSE Returned(<<Spawn(<<coding_tool>>, worktree_path)>>, env.returncode, FALSE)

\* connect_to_remote_path(remote_path, with_coding_tool, ssh_key, user_host,
\*                        coding_tool, remote_shell)
connect_to_remote_path(env, remote_path, with_coding_tool, ssh_key, user_host, coding_tool, remote_shell) ==
    IF ~validate_ssh_key(env, ssh_key) THEN Returned(<<>>, 1, FALSE)
    ELSE LET remote_cmd == _build_remote_cmd_for_path(remote_path, with_coding_tool,
                                                      coding_tool, remote_shell, env.platform)
             ssh_cmd == Append(build_ssh_command(ssh_key, user_host), remote_cmd)
         IN  RunSsh(env, ssh_cmd)

(***************************************************************************)
(* src/vibe/cli.py: the command.  a holds the arguments and flags, env     *)
(* what the invocation finds outside (connection env, the repository of    *)
(* the cwd, the menu choices and confirmation of the operator, the context *)
(* get_current_context() reports, the repository clean_all discovers).     *)
(***************************************************************************)
\* a value or typer.Abort()
Value(v) == [abort |-> FALSE, value |-> v]
Abort == [abort |-> TRUE, value |-> <<>>]

\* menu.show() returning None: the operator cancelled
Cancel == "cancel"

\* prompt_shell_choice()
prompt_shell_choice(env) ==
    IF env.shell_choice = Cancel THEN Abort ELSE Value(env.shell_choice)

\* prompt_coding_tool_choice(powershell); options Codex, OpenCode, Claude
prompt_coding_tool_choice(env, powershell) ==
    IF env.tool_choice = Cancel THEN Abort
    ELSE IF env.tool_choice = "Codex"
    THEN Value(IF powershell THEN CODEX_DIRECT_CMD ELSE CODEX_CMD)
    ELSE IF env.tool_choice = "OpenCode"
    THEN Value(IF powershell THEN OPEN_CODE_DIRECT_CMD ELSE OPEN_CODE_CMD)
    ELSE Value(IF powershell THEN CLAUDE_CODE_DIRECT_CMD ELSE CLAUDE_CODE_CMD)

\* resolve_coding_tool(oc, codex, claude, powershell); NoCommand for None
resolve_coding_tool(oc, codex, claude, powershell) ==
    IF oc THEN (IF powershell THEN OPEN_CODE_DIRECT_CMD ELSE OPEN_CODE_CMD)
    ELSE IF codex THEN (IF powershell THEN CODEX_DIRECT_CMD ELSE CODEX_CMD)
    ELSE IF claude THEN (IF powershell THEN CLAUDE_CODE_DIRECT_CMD ELSE CLAUDE_CODE_CMD)
    ELSE NoCommand

\* _resolve_remote_shell()
_resolve_remote_shell(env) ==
    IF REMOTE_IS_WINDOWS(env.platform) THEN prompt_shell_choice(env)
    ELSE Value(DEFAULT_REMOTE_SHELL(env.platform))

\* _resolve_tool_and_shell(oc, codex, claude, remote_shell)
_resolve_tool_and_shell(env, oc, codex, claude, remote_shell) ==
    LET is_powershell == remote_shell = Shell_POWERSHELL
        coding_tool == resolve_coding_tool(oc, codex, claude, is_powershell)
    IN  IF coding_tool = NoCommand THEN prompt_coding_tool_choice(env, is_powershell)
        ELSE Value(coding_tool)

\* ContextType
ContextType_MAIN_REPO == "main_repo"
ContextType_WORKTREE == "worktree"
ContextType_NONE == "none"

\* validate_git_repo(): the cwd lies in a repository
validate_git_repo(env) == env.cwd # NoRepo

\* get_repo_info(): root and name of the repository of the cwd
get_repo_info(env) == [root |-> env.cwd, name |-> BaseName(RepoRoot(env.cwd))]

(***************************************************************************)
(* src/vibe/git_ops.py, context detection: what git rev-parse prints in a  *)
(* working directory, and what is_git_worktree and get_current_context     *)
(* make of it.  Paths are the configured ones of the platform.             *)
(***************************************************************************)
\* LOCAL_REPO_BASE: the same directory as REMOTE_REPO_BASE on both platforms
LOCAL_REPO_BASE(platform) == REMOTE_REPO_BASE(platform)

\* LOCAL_REPO_BASE / "_vibecoding"
LOCAL_WORKTREE_BASE(platform) == Join(LOCAL_REPO_BASE(platform), <<"_", "v", "i", "b", "e", "c", "o", "d", "i", "n", "g">>)

\* the checkouts on the machine: main repositories directly under the repo
\* base, in a group directory under it and outside it, and linked worktrees of
\* the first one (flat name, name with "/", directly under the worktree base,
\* outside the bases)
MainUnderBase(platform) == Join(LOCAL_REPO_BASE(platform), <<"r", "e", "p", "o">>)

MainCheckouts(platform) ==
    {MainUnderBase(platform), Join(Join(LOCAL_REPO_BASE(platform), <<"g">>), <<"r", "e", "p", "o">>), <<"/", "o", "/", "r", "e", "p", "o">>}

LinkedCheckouts(platform) ==
    {Join(Join(LOCAL_WORKTREE_BASE(platform), <<"r", "e", "p", "o">>), <<"a">>),
     Join(Join(LOCAL_WORKTREE_BASE(platform), <<"r", "e", "p", "o">>), <<"f", "/", "x">>),
     Join(LOCAL_WORKTREE_BASE(platform), <<"o", "d", "d">>),
     <<"/", "o", "/", "w", "t">>}

Checkouts(platform) ==
    {[root |-> m, main |-> m] : m \in MainCheckouts(platform)}
        \cup {[root |-> t, main |-> MainUnderBase(platform)] : t \in LinkedCheckouts(platform)}

\* working directories: the checkout roots, directories inside them, and
\* directories in no repository
WorkingDirs(platform) ==
    {c.root : c \in Checkouts(platform)}
        \cup {Join(MainUnderBase(platform), <<"s", "r", "c">>), Join(MainUnderBase(platform), <<"s", "r", "c", "/", "l", "i", "b">>),
              Join(Join(Join(LOCAL_WORKTREE_BASE(platform), <<"r", "e", "p", "o">>), <<"a">>), <<"s", "r", "c">>),
              Join(Join(Join(LOCAL_WORKTREE_BASE(platform), <<"r", "e", "p", "o">>), <<"f", "/", "x">>), <<"s", "r", "c">>),
              Join(Join(LOCAL_WORKTREE_BASE(platform), <<"r", "e", "p", "o">>), <<"f">>),
              LOCAL_WORKTREE_BASE(platform), LOCAL_REPO_BASE(platform), <<"/", "t", "m", "p">>}

NoCheckout == [root |-> <<>>, main |-> <<>>]

\* the checkout git finds from cwd: the innermost one containing it
CheckoutOf(cwd, platform) ==
    LET around == {c \in Checkouts(platform) : IsRelativeTo(cwd, c.root)}
    IN  IF around = {} THEN NoCheckout
        ELSE CHOOSE c \in around : \A d \in around : Len(d.root) <= Len(c.root)

\* git rev-parse --show-toplevel
ShowToplevel(cwd, platform) == CheckoutOf(cwd, platform).root

\* "../" once for every level cwd lies below root
RECURSIVE UpTo(_, _)
UpTo(cwd, root) == IF cwd = root THEN <<>> ELSE <<".", ".", "/">> \o UpTo(Parent(cwd), root)

\* git rev-parse --git-dir: relative at the root of a main checkout, absolute elsewhere
RevParseGitDir(cwd, platform) ==
    LET c == CheckoutOf(cwd, platform)
    IN  IF c.root # c.main THEN Join(Join(Join(c.main, <<".", "g", "i", "t">>), <<"w", "o", "r", "k", "t", "r", "e", "e", "s">>), BaseName(c.root))
        ELSE IF cwd = c.root THEN <<".", "g", "i", "t">>
        ELSE Join(c.root, <<".", "g", "i", "t">>)

\* git rev-parse --git-common-dir: relative to cwd in a main checkout,
\* absolute in a linked worktree
RevParseGitCommonDir(cwd, platform) ==
    LET c == CheckoutOf(cwd, platform)
    IN  IF c.root # c.main THEN Join(c.main, <<".", "g", "i", "t">>)
        ELSE UpTo(cwd, c.root) \o <<".", "g", "i", "t">>

\* Path.is_absolute
is_absolute(p) == p # <<>> /\ p[1] = "/"

\* (cwd / rel).resolve(), for rel with leading ".." components
RECURSIVE Resolve(_, _)
Resolve(cwd, rel) ==
    IF StartsWith(rel, <<".", ".", "/">>) THEN Resolve(Parent(cwd), SubSeq(rel, 4, Len(rel)))
    ELSE Join(cwd, rel)

\* Path.parts of a relative path
RECURSIVE Parts(_)
Parts(rel) ==
    IF rel = <<>> THEN <<>>
    ELSE IF \A i \in 1..Len(rel) : rel[i] # "/" THEN <<rel>>
    ELSE LET k == CHOOSE i \in 1..Len(rel) :
                     rel[i] = "/" /\ \A j \in 1..(i - 1) : rel[j] # "/"
         IN  <<SubSeq(rel, 1, k - 1)>> \o Parts(SubSeq(rel, k + 1, Len(rel)))

\* p.relative_to(base), for p at or below base
RelativeTo(p, base) == SubSeq(p, Len(base) + 2, Len(p))

\* remote_base / "_vibecoding" / repo_name / worktree_name
WorktreeRemotePath(platform, repo_name, worktree_name) ==
    Join(Join(Join(REMOTE_REPO_BASE(platform), <<"_", "v", "i", "b", "e", "c", "o", "d", "i", "n", "g">>), repo_name), worktree_name)

\* is_git_worktree(cwd)
is_git_worktree(cwd, platform) ==
    IF CheckoutOf(cwd, platform) = NoCheckout THEN FALSE
    ELSE LET git_dir_out == RevParseGitDir(cwd, platform)
             common_dir_out == RevParseGitCommonDir(cwd, platform)
             git_dir == IF ~is_absolute(git_dir_out) THEN Resolve(cwd, git_dir_out)
                        ELSE git_dir_out
             common_dir == IF ~is_absolute(common_dir_out) THEN Resolve(cwd, common_dir_out)
                           ELSE common_dir_out
         IN  git_dir # common_dir

\* CurrentContext; NoCommand stands for None
Context(context_type, local_path, remote_path, repo_name, worktree_name) ==
    [context_type |-> context_type, local_path |-> local_path, remote_path |-> remote_path,
     repo_name |-> repo_name, worktree_name |-> worktree_name]

\* get_current_context(cwd) with the configured bases
get_current_context(cwd, platform) ==
    IF CheckoutOf(cwd, platform) = NoCheckout
    THEN Context(ContextType_NONE, NoCommand, NoCommand, NoCommand, NoCommand)
    ELSE
      LET root == ShowToplevel(cwd, platform)
          name == BaseName(root)
      IN  IF is_git_worktree(cwd, platform)
          THEN LET parts == IF IsRelativeTo(root, LOCAL_WORKTREE_BASE(platform))
                            THEN Parts(RelativeTo(root, LOCAL_WORKTREE_BASE(platform)))
                            ELSE <<>>
               IN  IF Len(parts) >= 2
                   THEN Context(ContextType_WORKTREE, root,
                                WorktreeRemotePath(platform, parts[1], parts[2]),
                                parts[1], parts[2])
                   ELSE Context(ContextType_WORKTREE, root, NoCommand, name, NoCommand)
          ELSE IF IsRelativeTo(root, LOCAL_REPO_BASE(platform))
          THEN Context(ContextType_MAIN_REPO, root, Join(REMOTE_REPO_BASE(platform), name),
                       name, NoCommand)
          ELSE Context(ContextType_MAIN_REPO, root, NoCommand, name, NoCommand)

\* the process exit status of raise typer.Exit(code)
ExitStatus(code) == code % 256

\* the outcome of an invocation that connected nowhere
NoCall == "-"
Done(w, code, setup) ==
    [w |-> w, exit |-> ExitStatus(code), called |-> NoCall, spawned |-> <<>>, ret |-> <<>>,
     setup |-> setup]

\* exit_code = connect...(...); raise typer.Exit(exit_code)
ExitWith(w, called, c, setup) ==
    [w |-> w, exit |-> ExitStatus(c.returncode), called |-> called,
     spawned |-> c.spawned, ret |-> <<c.returncode>>, setup |-> setup]

\* the branch flows without the exit on a False from setup_worktree
BranchFlow_connectsAnyway(w, a, env, kind) ==
    IF ~validate_git_repo(env) THEN Done(w, 1, "-")
    ELSE
      LET repo_info == get_repo_info(env)
          st == setup_worktree(w, a.branch, a.from_branch, repo_info.name, repo_info.root,
                               env.confirm)
      IN  IF st.status = EXISTS_VALID /\ a.from_branch # <<>> /\ ~env.confirm
          THEN Done(st.w, 1, "abort")
          ELSE IF kind = "local"
          THEN LET flagged == resolve_coding_tool(a.oc, a.codex, a.claude, FALSE)
                   coding_tool == IF flagged = NoCommand
                                  THEN prompt_coding_tool_choice(env, FALSE)
                                  ELSE Value(flagged)
                   worktree_path == Join(Join(WorktreeBase, repo_info.name), a.branch)
               IN  IF coding_tool.abort THEN Done(st.w, 1, IF st.result THEN "True" ELSE "False")
                   ELSE ExitWith(st.w, "connect_locally",
                                 connect_locally(st.w, env, worktree_path, coding_tool.value),
                                 IF st.result THEN "True" ELSE "False")
          ELSE LET remote_shell == _resolve_remote_shell(env)
               IN  IF remote_shell.abort THEN Done(st.w, 1, IF st.result THEN "True" ELSE "False")
                   ELSE IF kind = "cli"
                   THEN ExitWith(st.w, "connect_to_remote",
                                 connect_to_remote(env, repo_info.name, a.branch, FALSE,
                                     SSH_KEY_PATH, SSH_USER_HOST(env.platform),
                                     REMOTE_WORKTREE_BASE(env.platform), CLAUDE_CODE_CMD,
                                     remote_shell.value),
                                 IF st.result THEN "True" ELSE "False")
                   ELSE LET coding_tool == _resolve_tool_and_shell(env, a.oc, a.codex,
                                               a.claude, remote_shell.value)
                        IN  IF coding_tool.abort THEN Done(st.w, 1, IF st.result THEN "True" ELSE "False")
                            ELSE ExitWith(st.w, "connect_to_remote",
                                     connect_to_remote(env, repo_info.name, a.branch, TRUE,
                                         SSH_KEY_PATH, SSH_USER_HOST(env.platform),
                                         REMOTE_WORKTREE_BASE(env.platform),
                                         coding_tool.value, remote_shell.value),
                                     IF st.result THEN "True" ELSE "False")

\* the three flows that take a branch: validate_git_repo, setup_worktree, then
\* the connection kind says which connect function follows
BranchFlow(w, a, env, kind) ==
    IF ~validate_git_repo(env) THEN Done(w, 1, "-")
    ELSE
      LET repo_info == get_repo_info(env)
          st == setup_worktree(w, a.branch, a.from_branch, repo_info.name, repo_info.root,
                               env.confirm)
      IN  IF st.status = EXISTS_VALID /\ a.from_branch # <<>> /\ ~env.confirm
          THEN Done(st.w, 1, "abort")
          ELSE IF ~st.result THEN Done(st.w, 1, "False")
          ELSE IF kind = "local"
          THEN LET flagged == resolve_coding_tool(a.oc, a.codex, a.claude, FALSE)
                   coding_tool == IF flagged = NoCommand
                                  THEN prompt_coding_tool_choice(env, FALSE)
                                  ELSE Value(flagged)
                   worktree_path == Join(Join(WorktreeBase, repo_info.name), a.branch)
               IN  IF coding_tool.abort THEN Done(st.w, 1, "True")
                   ELSE ExitWith(st.w, "connect_locally",
                                 connect_locally(st.w, env, worktree_path, coding_tool.value),
                                 "True")
          ELSE LET remote_shell == _resolve_remote_shell(env)
               IN  IF remote_shell.abort THEN Done(st.w, 1, "True")
                   ELSE IF kind = "cli"
                   THEN ExitWith(st.w, "connect_to_remote",
                                 connect_to_remote(env, repo_info.name, a.branch, FALSE,
                                     SSH_KEY_PATH, SSH_USER_HOST(env.platform),
                                     REMOTE_WORKTREE_BASE(env.platform), CLAUDE_CODE_CMD,
                                     remote_shell.value),
                                 "True")
                   ELSE LET coding_tool == _resolve_tool_and_shell(env, a.oc, a.codex,
                                               a.claude, remote_shell.value)
                        IN  IF coding_tool.abort THEN Done(st.w, 1, "True")
                            ELSE ExitWith(st.w, "connect_to_remote",
                                     connect_to_remote(env, repo_info.name, a.branch, TRUE,
                                         SSH_KEY_PATH, SSH_USER_HOST(env.platform),
                                         REMOTE_WORKTREE_BASE(env.platform),
                                         coding_tool.value, remote_shell.value),
                                     "True")

\* main(branch, cli, local, clean, from_branch, oc, codex, claude); NoCommand
\* stands for a branch that is None
main(w, a, env) ==
    IF Cardinality({f \in {"oc", "codex", "claude"} : a[f]}) > 1 THEN Done(w, 1, "-")
    ELSE IF a.clean
    THEN IF a.branch = NoCommand
         THEN Done(clean_all_worktrees(w, env.discovered).w, 0, "-")
         ELSE IF ~validate_git_repo(env) THEN Done(w, 1, "-")
         ELSE LET repo_info == get_repo_info(env)
                  c == clean_specific_worktree(w, a.branch, repo_info.name, repo_info.root)
              IN  Done(c.w, IF c.result THEN 0 ELSE 1, "-")
    ELSE IF a.cli
    THEN IF a.branch = NoCommand
         THEN LET remote_shell == _resolve_remote_shell(env)
              IN  IF remote_shell.abort THEN Done(w, 1, "-")
                  ELSE ExitWith(w, "connect_to_remote_home",
                                connect_to_remote_home(env, SSH_KEY_PATH,
                                    SSH_USER_HOST(env.platform), UNLOCK_KEYCHAIN(env.platform),
                                    KEYCHAIN_COMMAND(env.platform), remote_shell.value),
                                "-")
         ELSE BranchFlow(w, a, env, "cli")
    ELSE IF a.local
    THEN IF a.branch = NoCommand THEN Done(w, 1, "-")
         ELSE BranchFlow(w, a, env, "local")
    ELSE IF a.branch = NoCommand
    THEN LET context == env.context
         IN  IF context.context_type = ContextType_NONE THEN Done(w, 1, "-")
             ELSE IF context.remote_path = NoCommand THEN Done(w, 1, "-")
             ELSE LET remote_shell == _resolve_remote_shell(env)
                  IN  IF remote_shell.abort THEN Done(w, 1, "-")
                      ELSE LET coding_tool == _resolve_tool_and_shell(env, a.oc, a.codex,
                                                  a.claude, remote_shell.value)
                           IN  IF coding_tool.abort THEN Done(w, 1, "-")
                               ELSE ExitWith(w, "connect_to_remote_path",
                                        connect_to_remote_path(env, context.remote_path, TRUE,
                                            SSH_KEY_PATH, SSH_USER_HOST(env.platform),
                                            coding_tool.value, remote_shell.value),
                                        "-")
    ELSE BranchFlow(w, a, env, "default")

(***************************************************************************)
(* The state machine.  last records the operation just performed: its      *)
(* arguments, what it returned and what it removed.                        *)
(***************************************************************************)
Now == World(fs, registry, branches)

NoOp ==
    [op |-> "init", repo |-> NoRepo, rn |-> <<>>, name |-> <<>>, base |-> <<>>,
     path |-> <<>>, result |-> "-", status |-> "-", calledCreate |-> FALSE,
     scenario |-> "-", listed |-> <<>>,
     stats |-> ZeroStats, skippedPaths |-> {}, cleanedPaths |-> {}, failedPaths |-> {},
     lingeringPaths |-> {},
     viaGit |-> {}, direct |-> {}, outcome |-> "-", raced |-> {},
     returned |-> "-", discovered |-> <<>>, removeStatus |-> "-"]

\* no operation is between its check and its act
NoPending ==
    [op |-> "-", repo |-> NoRepo, rn |-> <<>>, name |-> <<>>, base |-> <<>>, path |-> <<>>,
     seen |-> <<>>]

\* no connection function and no command has run
NoSession ==
    [fn |-> "-", a |-> <<>>, env |-> <<>>, spawned |-> <<>>, ret |-> <<>>, exit |-> <<>>,
     called |-> NoCall, setup |-> "-"]

Become(w, l) ==
    /\ ops < MaxOps
    /\ session' = session
    /\ pending' = pending
    /\ fs' = w.fs
    /\ registry' = w.reg
    /\ branches' = w.br
    /\ last' = l
    /\ ops' = ops + 1

Init ==
    /\ fs = [p \in {} |-> EmptyDir]
    /\ registry = [R \in Repos |-> [p \in {} |-> <<>>]]
    /\ branches = [R \in Repos |->
                      [b \in {MainBranch} |-> [commit |-> HeadCommit, upstream |-> NoUpstream]]]
    /\ last = NoOp
    /\ ops = 0
    /\ session = NoSession
    /\ pending = NoPending

CreateWorktree ==
    \E inv \in Invocations, rn \in RepoNames, base \in BaseBranches :
        LET R == inv[1]
            name == inv[2]
            c == create_worktree(Now, name, rn, base, R)
        IN  Become(c.w, [NoOp EXCEPT !.op = "create_worktree", !.repo = R, !.rn = rn,
                                     !.name = name, !.base = base, !.path = c.path,
                                     !.result = c.result, !.scenario = c.scenario,
                                     !.listed = c.listed])

SetupWorktree ==
    \E inv \in Invocations, rn \in RepoNames, base \in BaseBranches, confirm \in BOOLEAN :
        LET R == inv[1]
            name == inv[2]
            c == setup_worktree(Now, name, base, rn, R, confirm)
        IN  /\ ~confirm => c.status = EXISTS_VALID /\ base # <<>>
            /\ Become(c.w, [NoOp EXCEPT !.op = "setup_worktree", !.repo = R, !.rn = rn,
                                     !.name = name, !.base = base, !.path = c.path,
                                     !.result = c.result, !.status = c.status,
                                     !.calledCreate = c.calledCreate,
                                     !.returned =
                                         IF c.status = EXISTS_VALID /\ base # <<>> /\ ~confirm
                                         THEN "abort"
                                         ELSE IF c.result THEN "True" ELSE "False"])

RemoveWorktree ==
    \E path \in WorktreePaths, root \in Repos \cup {MissingRoot} :
        LET c == remove_worktree(Now, path, root)
        IN  Become(c.w, [NoOp EXCEPT !.op = "remove_worktree", !.repo = root,
                                     !.path = path, !.result = c.result,
                                     !.viaGit = c.viaGit, !.direct = c.direct])

CleanSpecificWorktree ==
    \E inv \in Invocations, rn \in RepoNames :
        LET R == inv[1]
            name == inv[2]
            c == clean_specific_worktree(Now, name, rn, R)
        IN  Become(c.w, [NoOp EXCEPT !.op = "clean_specific_worktree", !.repo = R,
                                     !.rn = rn, !.name = name,
                                     !.path = Join(Join(WorktreeBase, rn), name),
                                     !.result = c.result,
                                     !.viaGit = c.viaGit, !.direct = c.direct])

CleanAllWorktrees ==
    \E discovered \in [RepoDirs -> Repos \cup {NoRepo}] :
        /\ \A d \in RepoDirs :
              IF d \in DOMAIN fs /\ Discoverable(fs, d) # {}
              THEN discovered[d] \in Discoverable(fs, d)
              ELSE discovered[d] = NoRepo
        /\ LET c == clean_all_worktrees(Now, discovered)
           IN  Become(c.w, [NoOp EXCEPT !.op = "clean_all_worktrees", !.result = "stats",
                                        !.stats = c.stats, !.skippedPaths = c.skippedPaths,
                                        !.cleanedPaths = c.cleanedPaths,
                                        !.discovered = discovered,
                                        !.failedPaths = c.failedPaths,
                                        !.lingeringPaths = c.lingeringPaths,
                                        !.viaGit = c.viaGit, !.direct = c.direct])

\* the operator edits a file in a worktree and does not commit
UserEdit ==
    \E p \in DOMAIN fs :
        /\ fs[p].git # NoRepo /\ ~fs[p].dirty
        /\ Become([Now EXCEPT !.fs[p].dirty = TRUE], [NoOp EXCEPT !.op = "edit", !.path = p])

\* somebody creates a directory in the managed tree behind git's back
OutsideMkdir ==
    \E p \in (AllDirs \ RepoDirs) \ DOMAIN fs, files \in BOOLEAN :
        /\ \A q \in AncestorsBelow(p, WorktreeBase) : q \in DOMAIN fs => fs[q].git = NoRepo
        /\ Become([Now EXCEPT !.fs = [MkdirP(fs, p) EXCEPT ![p].files = files]],
                  [NoOp EXCEPT !.op = "mkdir", !.path = p])

\* the platform drops a junk file (.DS_Store, Thumbs.db, desktop.ini) in a directory
OutsideJunk ==
    \E p \in DOMAIN fs :
        /\ fs[p].git = NoRepo /\ ~fs[p].junk
        /\ Become([Now EXCEPT !.fs[p].junk = TRUE], [NoOp EXCEPT !.op = "junk", !.path = p])

Next ==
    \/ CreateWorktree
    \/ SetupWorktree
    \/ RemoveWorktree
    \/ CleanSpecificWorktree
    \/ CleanAllWorktrees
    \/ UserEdit
    \/ OutsideMkdir
    \/ OutsideJunk

Spec == Init /\ [][Next]_vars

(***************************************************************************)
(* The connection layer and the command as a state machine: one call of a  *)
(* connect function, or one invocation of the command, with its arguments  *)
(* and its environment drawn from small sets; session records the call,    *)
(* what it spawned and what it returned.                                   *)
(***************************************************************************)
\* the world before any operation, and the world with one worktree created
InitialWorld ==
    World([p \in {} |-> EmptyDir],
          [R \in Repos |-> [p \in {} |-> <<>>]],
          [R \in Repos |-> [b \in {MainBranch} |->
                               [commit |-> HeadCommit, upstream |-> NoUpstream]]])

StartWorlds ==
    {InitialWorld, create_worktree(InitialWorld, nA, BaseName(RepoRoot("R1")), <<>>, "R1").w}

\* exit codes of the spawned process
ExitCodes == {0, 1, 130, 255}

CodingTools ==
    {CLAUDE_CODE_CMD, CODEX_CMD, OPEN_CODE_CMD, CLAUDE_CODE_DIRECT_CMD, CODEX_DIRECT_CMD}

\* remote paths: worktrees (flat, nested), drive roots, spaces and quotes, a macOS path
RemotePaths ==
    {<<"/", "m", "n", "t", "/", "z", "/", "_", "v", "i", "b", "e", "c", "o", "d", "i", "n", "g", "/", "r", "e", "p", "o", "/", "b", "r">>, <<"/", "m", "n", "t", "/", "z", "/", "_", "v", "i", "b", "e", "c", "o", "d", "i", "n", "g", "/", "r", "/", "f", "/", "x">>, <<"/", "m", "n", "t", "/", "z">>,
     <<"/", "m", "n", "t", "/", "c", "/", "m", "y", " ", "r", "e", "p", "o", "/", "i", "t", "'", "s">>, <<"/", "V", "o", "l", "u", "m", "e", "s", "/", "E", "x", "t", "e", "r", "n", "a", "l", "/", "R", "e", "p", "o", "s", "i", "t", "o", "r", "i", "e", "s", "/", "r", "e", "p", "o">>}

KeychainCommands == {NoCommand, KEYCHAIN_COMMAND(Platform_MACOS), <<"u", "n", "l", "o", "c", "k", " ", "\"", "l", "o", "g", "i", "n", "\"">>}

ConnEnvs ==
    [keys : {{}, {SSH_KEY_PATH}}, returncode : ExitCodes, platform : Platforms]

Called(fn, a, env, c) ==
    [fn |-> fn, a |-> a, env |-> env, spawned |-> c.spawned, ret |-> <<c.returncode>>,
     exit |-> <<>>, called |-> NoCall, setup |-> "-"]

ConnInit ==
    /\ \E w \in StartWorlds : fs = w.fs /\ registry = w.reg /\ branches = w.br
    /\ last = NoOp
    /\ ops = 0
    /\ session = NoSession
    /\ pending = NoPending

ConnectToRemote ==
    \E env \in ConnEnvs, rn \in RepoNames, name \in Names, with_coding_tool \in BOOLEAN,
       coding_tool \in CodingTools, remote_shell \in RemoteShells :
        /\ session = NoSession
        /\ session' = Called("connect_to_remote",
                             [repo_name |-> rn, worktree_name |-> name,
                              remote_path |-> Join(Join(REMOTE_WORKTREE_BASE(env.platform), rn), name),
                              with_coding_tool |-> with_coding_tool,
                              coding_tool |-> coding_tool, remote_shell |-> remote_shell],
                             env,
                             connect_to_remote(env, rn, name, with_coding_tool, SSH_KEY_PATH,
                                 SSH_USER_HOST(env.platform), REMOTE_WORKTREE_BASE(env.platform),
                                 coding_tool, remote_shell))
        /\ UNCHANGED <<fs, registry, branches, last, ops, pending>>

ConnectToRemotePath ==
    \E env \in ConnEnvs, remote_path \in RemotePaths, with_coding_tool \in BOOLEAN,
       coding_tool \in CodingTools, remote_shell \in RemoteShells :
        /\ session = NoSession
        /\ session' = Called("connect_to_remote_path",
                             [remote_path |-> remote_path,
                              with_coding_tool |-> with_coding_tool,
                              coding_tool |-> coding_tool, remote_shell |-> remote_shell],
                             env,
                             connect_to_remote_path(env, remote_path, with_coding_tool,
                                 SSH_KEY_PATH, SSH_USER_HOST(env.platform), coding_tool,
                                 remote_shell))
        /\ UNCHANGED <<fs, registry, branches, last, ops, pending>>

ConnectToRemoteHome ==
    \E env \in ConnEnvs, unlock_keychain \in BOOLEAN, keychain_command \in KeychainCommands,
       remote_shell \in RemoteShells :
        /\ session = NoSession
        /\ session' = Called("connect_to_remote_home",
                             [unlock_keychain |-> unlock_keychain,
                              keychain_command |-> keychain_command,
                              remote_shell |-> remote_shell],
                             env,
                             connect_to_remote_home(env, SSH_KEY_PATH,
                                 SSH_USER_HOST(env.platform), unlock_keychain,
                                 keychain_command, remote_shell))
        /\ UNCHANGED <<fs, registry, branches, last, ops, pending>>

ConnectLocally ==
    \E env \in ConnEnvs, worktree_path \in WorktreePaths, coding_tool \in CodingTools :
        /\ session = NoSession
        /\ session' = Called("connect_locally",
                             [worktree_path |-> worktree_path, coding_tool |-> coding_tool],
                             env,
                             connect_locally(Now, env, worktree_path, coding_tool))
        /\ UNCHANGED <<fs, registry, branches, last, ops, pending>>

\* the command lines tried: flag combinations, branch absent, plain or origin/
\* one call of get_current_context in a working directory
GetCurrentContext ==
    \E platform \in Platforms :
        \E cwd \in WorkingDirs(platform) :
            /\ session = NoSession
            /\ session' = [NoSession EXCEPT !.fn = "get_current_context",
                                            !.a = [cwd |-> cwd],
                                            !.env = [platform |-> platform],
                                            !.ret = <<get_current_context(cwd, platform)>>]
            /\ UNCHANGED <<fs, registry, branches, last, ops, pending>>

MainFlags ==
    {[cli |-> FALSE, local |-> FALSE, clean |-> FALSE],
     [cli |-> TRUE, local |-> FALSE, clean |-> FALSE],
     [cli |-> FALSE, local |-> TRUE, clean |-> FALSE],
     [cli |-> FALSE, local |-> FALSE, clean |-> TRUE],
     [cli |-> TRUE, local |-> TRUE, clean |-> FALSE]}

ToolFlags ==
    {[oc |-> FALSE, codex |-> FALSE, claude |-> FALSE],
     [oc |-> FALSE, codex |-> FALSE, claude |-> TRUE],
     [oc |-> TRUE, codex |-> TRUE, claude |-> FALSE]}

MainArgs ==
    {[branch |-> b, cli |-> f.cli, local |-> f.local, clean |-> f.clean, from_branch |-> fb,
      oc |-> t.oc, codex |-> t.codex, claude |-> t.claude] :
        b \in {NoCommand, nA, nOA}, f \in MainFlags, fb \in {<<>>, nZ}, t \in ToolFlags}

\* what get_current_context() may report
Contexts ==
    {[context_type |-> ContextType_NONE, remote_path |-> NoCommand],
     [context_type |-> ContextType_MAIN_REPO, remote_path |-> <<"/", "m", "n", "t", "/", "z", "/", "r", "e", "p", "o">>],
     [context_type |-> ContextType_WORKTREE, remote_path |-> NoCommand]}

\* the repository each repo directory's first registered worktree reports
Discoveries ==
    {d \in [RepoDirs -> Repos \cup {NoRepo}] :
        \A dir \in RepoDirs :
            IF dir \in DOMAIN fs /\ Discoverable(fs, dir) # {}
            THEN d[dir] \in Discoverable(fs, dir)
            ELSE d[dir] = NoRepo}

MainEnvs ==
    {[keys |-> ce.keys, returncode |-> ce.returncode, platform |-> ce.platform,
      cwd |-> cwd, shell_choice |-> shell_choice, tool_choice |-> tool_choice,
      confirm |-> confirm, context |-> context, discovered |-> discovered] :
        ce \in {e \in ConnEnvs : e.returncode \in {0, 255}}, cwd \in {"R1", NoRepo},
        shell_choice \in {Shell_WSL, Shell_POWERSHELL, Cancel},
        tool_choice \in {"Claude", Cancel}, confirm \in BOOLEAN, context \in Contexts,
        discovered \in Discoveries}

Main ==
    /\ session = NoSession
    /\ \E a \in MainArgs, env \in MainEnvs :
        \* an input the invocation never reads keeps one value
        /\ ~env.confirm => a.from_branch # <<>>
        /\ ~REMOTE_IS_WINDOWS(env.platform) => env.shell_choice = Cancel
        /\ (a.oc \/ a.codex \/ a.claude) => env.tool_choice = Cancel
        /\ a.branch # NoCommand => env.context.context_type = ContextType_NONE
        /\ \E m \in {main(Now, a, env)} :
               /\ fs' = m.w.fs /\ registry' = m.w.reg /\ branches' = m.w.br
               /\ session' = [fn |-> "main", a |-> a, env |-> env, spawned |-> m.spawned,
                              ret |-> m.ret, exit |-> <<m.exit>>, called |-> m.called,
                              setup |-> m.setup]
               /\ UNCHANGED <<last, ops, pending>>

ConnNext ==
    \/ ConnectToRemote
    \/ ConnectToRemotePath
    \/ ConnectToRemoteHome
    \/ ConnectLocally
    \/ Main
    \/ GetCurrentContext

ConnSpec == ConnInit /\ [][ConnNext]_vars

(***************************************************************************)
(* Vocabulary of the properties.                                           *)
(***************************************************************************)
\* the world after the step
After == World(fs', registry', branches')

Step(op) == last'.op = op

\* nothing on disk, in the registries or among the branches changes
WorldUnchanged == fs' = fs /\ registry' = registry /\ branches' = branches

\* p is a worktree git has registered, for some repository
RegisteredAnywhere(p) == \E R \in Repos : p \in DOMAIN registry[R]

\* the path the tool derives for a worktree name
TargetPath(rn, name) == Join(Join(WorktreeBase, rn), name)

(***************************************************************************)
(* C1.  clean_all_worktrees never removes a worktree that has uncommitted  *)
(* changes: every registered worktree under the worktree base whose        *)
(* `git status --porcelain` is non-empty when the pass runs still has its  *)
(* directory and files afterwards, is still registered, and was counted in *)
(* skipped -- for flat names, nested names and mixed repositories alike.   *)
(***************************************************************************)
C1_CleanAllKeepsDirtyWorktrees ==
    [][Step("clean_all_worktrees") =>
          \A R \in Repos : \A p \in DOMAIN registry[R] :
              (IsRelativeTo(p, WorktreeBase) /\ has_uncommitted_changes(Now, p)) =>
                  /\ p \in DOMAIN fs' /\ fs'[p] = fs[p]
                  /\ p \in DOMAIN registry'[R]
                  /\ p \in last'.skippedPaths]_vars

(***************************************************************************)
(* C2.  The tool never deletes a git worktree's directory by direct        *)
(* filesystem removal: a directory that is a registered worktree leaves    *)
(* the disk only through `git worktree remove`; rmdir and rmtree never     *)
(* take a registered worktree with them.                                   *)
(***************************************************************************)
C2_WorktreesLeaveOnlyThroughGit ==
    [][\A p \in (DOMAIN fs) \ (DOMAIN fs') :
          RegisteredAnywhere(p) => p \in last'.viaGit /\ p \notin last'.direct]_vars

(***************************************************************************)
(* C3.  clean_specific_worktree returns False, raising nothing and leaving *)
(* filesystem and registry unchanged, whenever the target path is no       *)
(* directory, or is not in the repository's live worktree list, or has     *)
(* uncommitted changes; it returns True only if the worktree was removed   *)
(* through remove_worktree.                                                *)
(***************************************************************************)
C3_CleanSpecificRefuses ==
    [][Step("clean_specific_worktree") =>
          LET path == last'.path
              R == last'.repo
              refuse == \/ path \notin DOMAIN fs
                        \/ path \notin DOMAIN registry[R]
                        \/ fs[path].dirty
          IN  /\ last'.result \in BOOLEAN
              /\ refuse => last'.result = FALSE /\ WorldUnchanged
              /\ last'.result = TRUE =>
                    /\ path \in last'.viaGit
                    /\ path \notin DOMAIN fs' /\ path \notin DOMAIN registry'[R]]_vars

\* a worktree with uncommitted changes was targeted, refused and is still there
C3_Witness ==
    /\ last.op = "clean_specific_worktree" /\ last.result = FALSE
    /\ last.path \in DOMAIN fs /\ fs[last.path].dirty
    /\ last.path \in DOMAIN registry[last.repo]

(***************************************************************************)
(* C4.  check_worktree_exists answers NOT_EXISTS iff the path is not on    *)
(* disk, EXISTS_VALID iff it is on disk and that exact path is an entry of *)
(* git's worktree registry, EXISTS_INVALID iff it is on disk and no entry  *)
(* -- also when the path is a string prefix of another registered path.    *)
(***************************************************************************)
C4_StatusFollowsRegistry ==
    \A inv \in Invocations, rn \in RepoNames :
        LET R == inv[1]
            path == TargetPath(rn, inv[2])
        IN  check_worktree_exists(Now, inv[2], rn, R) =
                IF path \notin DOMAIN fs THEN NOT_EXISTS
                ELSE IF path \in DOMAIN registry[R] THEN EXISTS_VALID
                ELSE EXISTS_INVALID

(***************************************************************************)
(* C5.  A directory that occupies a worktree path but is not registered    *)
(* with git (EXISTS_INVALID) is never auto-resolved: setup_worktree,       *)
(* create_worktree, clean_specific_worktree and clean_all_worktrees        *)
(* neither delete it nor create a worktree over it, and setup_worktree on  *)
(* EXISTS_INVALID returns False without calling create_worktree.           *)
(***************************************************************************)
Occupied(p) == p \in DOMAIN fs /\ ~RegisteredAnywhere(p)

LeftAlone(p) == p \in DOMAIN fs' /\ fs'[p] = fs[p] /\ \A R \in Repos : p \notin DOMAIN registry'[R]

C5_InvalidNeverAutoResolved ==
    [][last'.op \in {"setup_worktree", "create_worktree", "clean_specific_worktree",
                     "clean_all_worktrees"} =>
          /\ \A p \in WorktreePaths : Occupied(p) => LeftAlone(p)
          /\ (Step("setup_worktree") /\ last'.status = EXISTS_INVALID) =>
                 last'.result = FALSE /\ ~last'.calledCreate]_vars

(***************************************************************************)
(* C5, amended.  setup_worktree and clean_specific_worktree never resolve  *)
(* an unregistered directory at their target path: setup_worktree does not *)
(* call create_worktree and changes nothing (returning False whenever      *)
(* check_worktree_exists reports EXISTS_INVALID), clean_specific_worktree  *)
(* returns False and changes nothing.  No call of create_worktree deletes  *)
(* a directory, and none touches an unregistered directory that holds an   *)
(* entry.  (clean_all_worktrees deletes such directories as lingering, and *)
(* create_worktree succeeds over an existing empty directory.)             *)
(***************************************************************************)
C5_InvalidResolvedOnlyByCleanAll ==
    [][/\ Step("setup_worktree") =>
             /\ Occupied(TargetPath(last'.rn, last'.name)) =>
                    /\ ~last'.calledCreate /\ WorldUnchanged
                    /\ last'.status = EXISTS_INVALID => last'.result = FALSE
             /\ last'.status = EXISTS_INVALID =>
                    last'.result = FALSE /\ ~last'.calledCreate /\ WorldUnchanged
       /\ Step("clean_specific_worktree") =>
             (Occupied(TargetPath(last'.rn, last'.name)) =>
                  last'.result = FALSE /\ WorldUnchanged)
       /\ last'.op \in {"setup_worktree", "create_worktree", "clean_specific_worktree"} =>
             \A p \in WorktreePaths :
                 Occupied(p) => p \in DOMAIN fs' /\ (~NoEntries(fs, p) => LeftAlone(p))
       /\ last'.op \in {"setup_worktree", "create_worktree"} =>
             DOMAIN fs \subseteq DOMAIN fs']_vars

\* setup_worktree met an unregistered directory, reported EXISTS_INVALID and the
\* directory is still there
C5_Witness ==
    /\ last.op = "setup_worktree" /\ last.status = EXISTS_INVALID /\ last.result = FALSE
    /\ Occupied(TargetPath(last.rn, last.name))

(***************************************************************************)
(* Preconditions shared by the create_worktree properties.                 *)
(***************************************************************************)
\* the step is create_worktree(name, rn, base) run in repository R
CreateStep(R, name, rn, base) ==
    /\ Step("create_worktree")
    /\ last'.repo = R /\ last'.name = name /\ last'.rn = rn /\ last'.base = base

\* refs/remotes/origin/<b> exists, b given with or without the origin/ prefix
ExistsRemotely(b) ==
    \/ b \in RemoteBranches
    \/ \E r \in RemoteBranches : b = OriginPrefix \o r

\* git can start a branch from base: HEAD, a local branch or origin/<remote branch>
BaseUsable(R, base) ==
    \/ base = <<>>
    \/ base \in DOMAIN branches[R]
    \/ \E r \in RemoteBranches : base = OriginPrefix \o r

\* nothing stands at the path: no directory holding an entry, no registration
PathFree(R, p) ==
    /\ p \in DOMAIN fs => NoEntries(fs, p)
    /\ p \notin DOMAIN registry[R]

\* the directories that are working trees (hold a .git marker)
WorkingTrees(f) == {p \in DOMAIN f : f[p].git # NoRepo}

\* after the step, exactly the branch b and the worktree at target are new in R
OneBranchOneWorktree(R, b, target) ==
    /\ b \notin DOMAIN branches[R]
    /\ DOMAIN branches'[R] = DOMAIN branches[R] \cup {b}
    /\ \A c \in DOMAIN branches[R] : branches'[R][c] = branches[R][c]
    /\ target \notin DOMAIN registry[R]
    /\ DOMAIN registry'[R] = DOMAIN registry[R] \cup {target}
    /\ registry'[R][target] = b
    /\ WorkingTrees(fs') = WorkingTrees(fs) \cup {target}
    /\ fs'[target].git = R
    /\ \A Q \in Repos \ {R} : branches'[Q] = branches[Q] /\ registry'[Q] = registry[Q]

C8_RemoteBranchIsTracked ==
    [][\A inv \in Invocations, rn \in RepoNames, base \in BaseBranches, b \in RemoteBranches :
          LET R == inv[1]
              name == inv[2]
              target == TargetPath(rn, b)
          IN  (/\ CreateStep(R, name, rn, base)
               /\ name = OriginPrefix \o b
               /\ b \notin DOMAIN branches[R]) =>
                  /\ last'.path = target
                  /\ last'.result \in {Created, WorktreeCreationFailed}
                  /\ PathFree(R, target) => last'.result = Created
                  /\ last'.result = Created =>
                         /\ OneBranchOneWorktree(R, b, target)
                         /\ branches'[R][b] = [commit |-> RemoteCommit(b), upstream |-> name]]_vars

\* a tracking branch with its worktree has just been created from origin/a
C8_Witness ==
    /\ last.op = "create_worktree" /\ last.name = nOA /\ last.result = Created
    /\ last.path = TargetPath(last.rn, nA)
    /\ nA \in DOMAIN branches[last.repo]
    /\ branches[last.repo][nA].upstream = nOA
    /\ last.path \in DOMAIN registry[last.repo]

(***************************************************************************)
(* C9.  create_worktree fails, creating no branch, registering no worktree *)
(* and creating no directory at the worktree path, when the name starts    *)
(* with origin/ and that remote branch does not exist                      *)
(* (RemoteBranchNotFound, listing the remote branches), or the name is a   *)
(* new branch and base_branch is given but exists neither locally nor      *)
(* remotely (BaseBranchNotFound, listing local and remote branches).  The  *)
(* only change is the creation of the repo subdirectory.                   *)
(***************************************************************************)
OnlyRepoDirCreated(rn) ==
    /\ branches' = branches
    /\ registry' = registry
    /\ fs' = MkdirP(fs, Join(WorktreeBase, rn))

RemoteNames == {OriginPrefix \o r : r \in RemoteBranches}

C9_MissingBranchFailsCleanly ==
    [][\A inv \in Invocations, rn \in RepoNames, base \in BaseBranches :
          LET R == inv[1]
              name == inv[2]
          IN  CreateStep(R, name, rn, base) =>
                  /\ (StartsWith(name, OriginPrefix) /\ ~ExistsRemotely(name)) =>
                         /\ last'.result = RemoteBranchNotFound
                         /\ Len(last'.listed) = 1 /\ Range(last'.listed[1]) = RemoteNames
                         /\ OnlyRepoDirCreated(rn)
                  /\ (/\ ~StartsWith(name, OriginPrefix)
                      /\ name \notin DOMAIN branches[R]
                      /\ base # <<>>
                      /\ base \notin DOMAIN branches[R] /\ ~ExistsRemotely(base)) =>
                         /\ last'.result = BaseBranchNotFound
                         /\ Len(last'.listed) = 2
                         /\ Range(last'.listed[1]) = DOMAIN branches[R]
                         /\ Range(last'.listed[2]) = RemoteNames
                         /\ OnlyRepoDirCreated(rn)]_vars

\* a new branch was asked for from a base that exists nowhere, and nothing but
\* the repo subdirectory is there
C9_Witness ==
    /\ last.op = "create_worktree" /\ last.result = BaseBranchNotFound
    /\ last.base = nZ
    /\ DOMAIN fs = {Join(WorktreeBase, last.rn)}
    /\ last.name \notin DOMAIN branches[last.repo]

Lingering(p) ==
    /\ p \in DOMAIN fs /\ Parent(p) \in RepoDirs
    /\ \A q \in Subtree(fs, p) : ~RegisteredAnywhere(q)

RemoteFns == {"connect_to_remote", "connect_to_remote_path", "connect_to_remote_home"}

\* the connect function that ran: called directly, or by the command
ConnectFn == IF session.fn = "main" THEN session.called ELSE session.fn

\* the argument vectors of the processes started
Argvs == {session.spawned[i].argv : i \in DOMAIN session.spawned}

\* the remote shell the connect function was given
SessionShell ==
    IF session.fn = "main"
    THEN (IF REMOTE_IS_WINDOWS(session.env.platform) THEN session.env.shell_choice
          ELSE DEFAULT_REMOTE_SHELL(session.env.platform))
    ELSE session.a.remote_shell

\* C12: a connect function whose precondition fails (the SSH key file is
\* missing for the three remote functions, worktree_path is not a directory
\* for connect_locally) returns 1 and starts no process.
C12_PreconditionFailureSpawnsNothing ==
    /\ (ConnectFn \in RemoteFns /\ SSH_KEY_PATH \notin session.env.keys)
          => session.ret = <<1>> /\ session.spawned = <<>>
    /\ (session.fn = "connect_locally" /\ ~IsDir(fs, session.a.worktree_path))
          => session.ret = <<1>> /\ session.spawned = <<>>

C12_Witness ==
    /\ session.fn = "connect_to_remote_path"
    /\ SSH_KEY_PATH \notin session.env.keys
    /\ session.env.returncode = 0
    /\ session.ret = <<1>>
    /\ session.spawned = <<>>

\* C13: once its precondition holds, each connect function starts one process
\* and returns that process's exit code unchanged, 255 included, and the
\* command exits with exactly the code the connect function it called returned.
C13_ExitCodePassesThrough ==
    /\ (ConnectFn \in RemoteFns /\ SSH_KEY_PATH \in session.env.keys)
          => Len(session.spawned) = 1 /\ session.ret = <<session.env.returncode>>
    /\ (session.fn = "connect_locally" /\ IsDir(fs, session.a.worktree_path))
          => Len(session.spawned) = 1 /\ session.ret = <<session.env.returncode>>
    /\ (session.fn = "main" /\ session.called = "connect_locally" /\ session.spawned # <<>>)
          => session.ret = <<session.env.returncode>>
    /\ (session.fn = "main" /\ session.called # NoCall) => session.exit = session.ret

C13_Witness ==
    /\ session.fn = "main"
    /\ session.called = "connect_to_remote"
    /\ session.env.returncode = 255
    /\ Len(session.spawned) = 1
    /\ session.ret = <<255>>
    /\ session.exit = <<255>>

\* the keychain-unlock commands a remote command could carry
UnlockCommands == KeychainCommands \ {NoCommand}

\* C14: no process started for the WSL or PowerShell dialect carries a
\* keychain-unlock command in any argument, in the path variant and in the
\* home variant, whatever unlock_keychain, keychain_command, path and tool.
C14_NoKeychainOnWindowsRemotes ==
    (ConnectFn \in RemoteFns /\ SessionShell \in {Shell_WSL, Shell_POWERSHELL})
        => \A argv \in Argvs : \A i \in DOMAIN argv : \A k \in UnlockCommands :
              ~Contains(argv[i], k)

C14_Witness ==
    /\ session.fn = "connect_to_remote_home"
    /\ session.a.remote_shell = Shell_WSL
    /\ session.a.unlock_keychain
    /\ session.a.keychain_command = KEYCHAIN_COMMAND(Platform_MACOS)
    /\ session.env.platform = Platform_MACOS
    /\ Len(session.spawned) = 1

\* the first place at or after from where needle occurs in hay, 0 when none
Find(hay, needle, from) ==
    LET at == {i \in from..(Len(hay) - Len(needle) + 1) :
                  SubSeq(hay, i, i + Len(needle) - 1) = needle}
    IN  IF at = {} THEN 0 ELSE CHOOSE i \in at : \A j \in at : i <= j

\* the four needles occur in hay one after the other
InOrder(hay, n1, n2, n3, n4) ==
    LET p1 == Find(hay, n1, 1)
        p2 == IF p1 = 0 THEN 0 ELSE Find(hay, n2, p1 + Len(n1))
        p3 == IF p2 = 0 THEN 0 ELSE Find(hay, n3, p2 + Len(n2))
        p4 == IF p3 = 0 THEN 0 ELSE Find(hay, n4, p3 + Len(n3))
    IN  p4 # 0

\* a direct call of a path-variant connect function that started ssh
PathCall ==
    /\ session.fn \in {"connect_to_remote", "connect_to_remote_path"}
    /\ session.spawned # <<>>

\* the remote command: the last argument of the ssh process
RemoteCmd == LET argv == session.spawned[1].argv IN argv[Len(argv)]

\* the chain of commands the WSL dialect hands to _wrap_for_wsl
WslInner ==
    JoinStr(<<" ", "&", "&", " ">>,
            <<<<"c", "d", " ">> \o escape_shell_path(session.a.remote_path), TmpdirSetup,
              IF session.a.with_coding_tool THEN session.a.coding_tool ELSE <<"e", "x", "e", "c", " ", "z", "s", "h">>>>)

\* C15: for the WSL dialect with a coding tool the remote command starts with
\* wsl -e zsh -l -i -c " and contains cd, the target path, TMPDIR and the tool
\* command in that order (paths that need no quoting).
C15_WslCommandDoubleQuoted ==
    (/\ PathCall
     /\ session.a.remote_shell = Shell_WSL
     /\ session.a.with_coding_tool
     /\ escape_shell_path(session.a.remote_path) = session.a.remote_path)
        => /\ StartsWith(RemoteCmd, <<"w", "s", "l", " ", "-", "e", " ", "z", "s", "h", " ", "-", "l", " ", "-", "i", " ", "-", "c", " ", "\"">>)
           /\ InOrder(RemoteCmd, <<"c", "d">>, session.a.remote_path, <<"T", "M", "P", "D", "I", "R">>, session.a.coding_tool)

\* C16: _wrap_for_wsl returns wsl -e zsh -l -i -c " followed by the inner
\* command with each " replaced by \" and a closing ".
C16_WrapEscapesDoubleQuotes ==
    (PathCall /\ session.a.remote_shell = Shell_WSL)
        => RemoteCmd = <<"w", "s", "l", " ", "-", "e", " ", "z", "s", "h", " ", "-", "l", " ", "-", "i", " ", "-", "c", " ", "\"">> \o Replace(WslInner, "\"", <<"\\", "\"">>) \o <<"\"">>

\* a path /mnt/<d>/<rest> with a one-letter drive and a non-empty rest
IsMntPath(p) ==
    /\ Len(p) >= 8
    /\ SubSeq(p, 1, 5) = <<"/", "m", "n", "t", "/">>
    /\ \E k \in DOMAIN LowerCase : p[6] \in {LowerCase[k], UpperCase[k]}
    /\ p[7] = "/"

\* its drive-letter form <D>:\<rest with \ separators>
DriveLetterForm(p) ==
    Upper(<<p[6]>>) \o <<":", "\\">> \o Replace(SubSeq(p, 8, Len(p)), "/", <<"\\">>)

\* C17: for the PowerShell dialect a target path /mnt/<d>/<rest> appears as
\* <D>:\<rest> with \ separators, the statements are joined with ; and never
\* with &&, and no TMPDIR setup appears.
C17_PowerShellCommand ==
    (PathCall /\ session.a.remote_shell = Shell_POWERSHELL)
        => /\ IsMntPath(session.a.remote_path)
                 => RemoteCmd = <<"c", "d", " ", "'">> \o DriveLetterForm(session.a.remote_path) \o <<"'", ";", " ">>
                                \o (IF session.a.with_coding_tool THEN session.a.coding_tool
                                    ELSE <<"p", "o", "w", "e", "r", "s", "h", "e", "l", "l">>)
           /\ Contains(RemoteCmd, <<";", " ">>)
           /\ ~Contains(RemoteCmd, <<"&", "&">>)
           /\ ~Contains(RemoteCmd, <<"T", "M", "P", "D", "I", "R">>)

C17_Witness ==
    /\ session.fn = "connect_to_remote_path"
    /\ session.a.remote_shell = Shell_POWERSHELL
    /\ session.a.remote_path = <<"/", "m", "n", "t", "/", "z", "/", "_", "v", "i", "b", "e", "c", "o", "d", "i", "n", "g", "/", "r", "e", "p", "o", "/", "b", "r">>
    /\ session.a.with_coding_tool
    /\ session.a.coding_tool = CLAUDE_CODE_DIRECT_CMD
    /\ Len(session.spawned) = 1
    /\ RemoteCmd = <<"c", "d", " ", "'", "Z", ":", "\\", "_", "v", "i", "b", "e", "c", "o", "d", "i", "n", "g", "\\", "r", "e", "p", "o", "\\", "b", "r", "'", ";", " ", "c", "l", "a", "u", "d", "e", " ", "-", "-", "d", "a", "n", "g", "e", "r", "o", "u", "s", "l", "y", "-", "s", "k", "i", "p", "-", "p", "e", "r", "m", "i", "s", "s", "i", "o", "n", "s">>

\* C18: connect_to_remote_home with the PowerShell dialect passes exactly
\* powershell -NoExit as the last argument of the ssh invocation.
C18_PowerShellHomeNoExit ==
    (/\ ConnectFn = "connect_to_remote_home"
     /\ SessionShell = Shell_POWERSHELL
     /\ session.spawned # <<>>)
        => RemoteCmd = <<"p", "o", "w", "e", "r", "s", "h", "e", "l", "l", " ", "-", "N", "o", "E", "x", "i", "t">>

\* a direct call of connect_to_remote_home that started ssh
HomeCall == session.fn = "connect_to_remote_home" /\ session.spawned # <<>>

\* the home call was given the keychain settings the path variant falls back on
ConfiguredKeychain ==
    /\ session.a.unlock_keychain = UNLOCK_KEYCHAIN(session.env.platform)
    /\ session.a.keychain_command = KEYCHAIN_COMMAND(session.env.platform)

ReferencePath == <<"/", "m", "n", "t", "/", "z", "/", "_", "v", "i", "b", "e", "c", "o", "d", "i", "n", "g", "/", "r", "e", "p", "o", "/", "b", "r">>

\* the shell-only command of the path variant for the dialect, and its cd step
ShellOnlyPathCmd(remote_shell, platform) ==
    _build_remote_cmd_for_path(ReferencePath, FALSE, CLAUDE_CODE_CMD, remote_shell, platform)

CdStep(remote_shell) ==
    IF remote_shell = Shell_POWERSHELL
    THEN <<"c", "d", " ", "'">> \o wsl_path_to_windows(ReferencePath) \o <<"'", ";", " ">>
    ELSE <<"c", "d", " ">> \o escape_shell_path(ReferencePath) \o <<" ", "&", "&", " ">>

\* cmd with the first occurrence of step taken out
Without(cmd, step) ==
    LET i == Find(cmd, step, 1)
    IN  IF i = 0 THEN cmd
        ELSE SubSeq(cmd, 1, i - 1) \o SubSeq(cmd, i + Len(step), Len(cmd))

\* the ssh invocation carries a remote command after -t
HasRemoteCmd == Len(session.spawned[1].argv) = Len(build_ssh_command(SSH_KEY_PATH, <<>>)) + 1

\* C19 as stated: for every dialect the home command equals the shell-only
\* path command with the cd step removed, and the POSIX and WSL home commands
\* contain the TMPDIR export and no cd.
C19_HomeIsPathWithoutCd ==
    (HomeCall /\ ConfiguredKeychain)
        => /\ HasRemoteCmd
           /\ RemoteCmd = Without(ShellOnlyPathCmd(session.a.remote_shell, session.env.platform),
                                  CdStep(session.a.remote_shell))
           /\ session.a.remote_shell # Shell_POWERSHELL
                 => Contains(RemoteCmd, TmpdirSetup) /\ ~Contains(RemoteCmd, <<"c", "d", " ">>)

\* C19 (amended): the POSIX home command, given the configured keychain
\* settings, equals the shell-only path command with the cd step removed,
\* and for every keychain setting contains the TMPDIR export and no cd; the
\* WSL home command is exactly wsl -e zsh -l -i, with no cd and no TMPDIR.
C19_PosixHomeIsPathWithoutCd ==
    HomeCall
        => /\ session.a.remote_shell = None
                 => /\ HasRemoteCmd
                    /\ Contains(RemoteCmd, TmpdirSetup)
                    /\ ~Contains(RemoteCmd, <<"c", "d", " ">>)
                    /\ ConfiguredKeychain
                          => RemoteCmd = Without(ShellOnlyPathCmd(None, session.env.platform),
                                                 CdStep(None))
           /\ session.a.remote_shell = Shell_WSL
                 => /\ HasRemoteCmd
                    /\ RemoteCmd = <<"w", "s", "l", " ", "-", "e", " ", "z", "s", "h", " ", "-", "l", " ", "-", "i">>
                    /\ ~Contains(RemoteCmd, <<"T", "M", "P", "D", "I", "R">>)
                    /\ ~Contains(RemoteCmd, <<"c", "d", " ">>)

C19_Witness ==
    /\ HomeCall
    /\ session.a.remote_shell = None
    /\ session.env.platform = Platform_MACOS
    /\ ConfiguredKeychain
    /\ RemoteCmd = KEYCHAIN_COMMAND(Platform_MACOS) \o <<" ", "&", "&", " ", "e", "x", "p", "o", "r", "t", " ", "T", "M", "P", "D", "I", "R", "=", "$", "(", "m", "k", "t", "e", "m", "p", " ", "-", "d", ")", " ", "&", "&", " ", "z", "s", "h", " ", "-", "l", " ", "-", "i">>

(***************************************************************************)
(* Reuse of worktrees by setup_worktree, checked under Spec.               *)
(***************************************************************************)
\* C20: once setup_worktree has created the worktree for a (repo, name), a
\* later call for the same (repo, name) with nothing changed in between
\* returns True without calling create_worktree and without changing
\* branches, registry or filesystem, origin/-prefixed names included (calls
\* without --from, which never prompt).
C20_CreatedOnceThenReused ==
    [][(/\ last.op = "setup_worktree"
        /\ last.calledCreate
        /\ last.result = TRUE
        /\ Step("setup_worktree")
        /\ last'.repo = last.repo /\ last'.rn = last.rn /\ last'.name = last.name
        /\ last'.base = <<>>)
          => /\ last'.result = TRUE
             /\ ~last'.calledCreate
             /\ WorldUnchanged]_vars

(***************************************************************************)
(* The windows between a check and the act that relies on it.  The tool is *)
(* single-threaded, but the file system and git's registry are shared with *)
(* other processes: here setup_worktree, clean_specific_worktree and       *)
(* clean_all_worktrees stop between their check and their git command, and *)
(* another vibe, git or the operator may act in between.  pending holds    *)
(* the arguments of the call that is under way and the world its check saw.*)
(***************************************************************************)
RaceWorlds ==
    {InitialWorld,
     create_worktree(InitialWorld, nA, BaseName(RepoRoot("R1")), <<>>, "R1").w,
     create_worktree(create_worktree(InitialWorld, nA, BaseName(RepoRoot("R1")), <<>>, "R1").w,
                     nFX, BaseName(RepoRoot("R1")), <<>>, "R1").w}

RaceInit ==
    /\ \E w \in RaceWorlds : fs = w.fs /\ registry = w.reg /\ branches = w.br
    /\ last = NoOp
    /\ ops = 0
    /\ session = NoSession
    /\ pending = NoPending

\* what appeared since the check, of the branch and the path create_worktree aims at
Appeared(seen, w, R, branch, path) ==
    {k \in {"branch", "directory", "entries"} :
        \/ k = "branch" /\ branch \in LocalBranches(w, R) \ LocalBranches(seen, R)
        \/ k = "directory" /\ path \in DOMAIN w.fs \ DOMAIN seen.fs
        \/ k = "entries" /\ path \in DOMAIN w.fs \ DOMAIN seen.fs /\ ~NoEntries(w.fs, path)}

\* setup_worktree up to the return of check_worktree_exists with NOT_EXISTS;
\* with any other status the call returns at once (action SetupWorktree)
SetupCheck ==
    \E inv \in Invocations, rn \in RepoNames, base \in BaseBranches :
        /\ pending = NoPending
        /\ ops < MaxRaceOps
        /\ check_worktree_exists(Now, inv[2], rn, inv[1]) = NOT_EXISTS
        /\ pending' = [op |-> "setup_worktree", repo |-> inv[1], rn |-> rn, name |-> inv[2],
                       base |-> base, path |-> Join(Join(WorktreeBase, rn), inv[2]),
                       seen |-> Now]
        /\ ops' = ops + 1
        /\ UNCHANGED <<fs, registry, branches, last, session>>

\* the rest of setup_worktree: create_worktree on the world as it is now, and
\* the branch flows of main, which exit with 1 when setup_worktree returns False
SetupCreate ==
    /\ pending.op = "setup_worktree"
    /\ \E c \in {create_worktree(Now, pending.name, pending.rn, pending.base, pending.repo)} :
        /\ fs' = c.w.fs /\ registry' = c.w.reg /\ branches' = c.w.br
        /\ last' = [NoOp EXCEPT !.op = "setup_worktree", !.repo = pending.repo,
                                !.rn = pending.rn, !.name = pending.name,
                                !.base = pending.base, !.path = c.path,
                                !.result = c.result = Created, !.status = NOT_EXISTS,
                                !.calledCreate = TRUE, !.scenario = c.scenario,
                                !.outcome = c.result,
                                !.returned = IF c.result = Created THEN "True" ELSE "False",
                                !.raced = Appeared(pending.seen, Now, pending.repo,
                                              IF StartsWith(pending.name, OriginPrefix)
                                              THEN LocalBranchName(pending.name)
                                              ELSE pending.name,
                                              c.path)]
        /\ session' = [NoSession EXCEPT
                          !.fn = "main",
                          !.setup = IF c.result = Created THEN "True" ELSE "False",
                          !.exit = IF c.result = Created THEN <<>>
                                   ELSE <<Done(c.w, 1, "False").exit>>]
    /\ pending' = NoPending
    /\ ops' = ops

\* another process runs `git branch <name>`: also the first half of its
\* `git worktree add -b`, which creates the branch before the working tree
OtherCreatesBranch ==
    \E R \in Repos, b \in {nA, nFX} :
        /\ b \notin LocalBranches(Now, R)
        /\ Become([Now EXCEPT !.br[R] =
                      [x \in LocalBranches(Now, R) \cup {b} |->
                          IF x = b THEN [commit |-> HeadCommit, upstream |-> NoUpstream]
                          ELSE branches[R][x]]],
                  [NoOp EXCEPT !.op = "branch", !.repo = R, !.name = b])

\* another process deletes a directory tree behind git's back (rm -rf)
OtherRemovesTree ==
    \E p \in DOMAIN fs :
        Become([Now EXCEPT !.fs = RemoveTree(fs, p)], [NoOp EXCEPT !.op = "rm", !.path = p])

\* remove_worktree, in a run where rmdir works and in one where it raises OSError
RemoveWorktreeOSError ==
    \E path \in WorktreePaths, root \in Repos \cup {MissingRoot}, oserror \in BOOLEAN :
        \E c \in {IF oserror THEN remove_worktree_oserror(Now, path, root)
                   ELSE remove_worktree(Now, path, root)} :
            /\ oserror => remove_worktree(Now, path, root).result = REMOVED_WITH_PARENT
            /\ Become(c.w, [NoOp EXCEPT !.op = "remove_worktree", !.repo = root,
                                        !.path = path, !.result = c.result,
                                        !.viaGit = c.viaGit, !.direct = c.direct,
                                        !.raced = IF oserror THEN {"rmdir"} ELSE {}])

\* lines 190-199: the removal of one worktree found clean, and its count
CountRemoval(acc1, worktree_path, original_repo) ==
    LET rm == remove_worktree(acc1.w, worktree_path, original_repo)
    IN  IF rm.result \in {REMOVED, REMOVED_WITH_PARENT}
        THEN [acc1 EXCEPT !.w = rm.w, !.stats.cleaned = @ + 1,
                          !.cleanedPaths = @ \cup {worktree_path},
                          !.viaGit = @ \cup rm.viaGit,
                          !.direct = @ \cup rm.direct]
        ELSE [acc1 EXCEPT !.stats.failed = @ + 1,
                          !.failedPaths = @ \cup {worktree_path}]

\* lines 171-189: the loop over the worktree list, up to the moment
\* has_uncommitted_changes has answered False for the worktree `at`
RECURSIVE ProcessUpTo(_, _, _, _, _)
ProcessUpTo(acc, worktree_list, original_repo, repo_dir, at) ==
    IF worktree_list = <<>> THEN [acc |-> acc, rest |-> <<>>, stopped |-> FALSE]
    ELSE
      LET worktree_path == Head(worktree_list)
          rest == Tail(worktree_list)
      IN  IF ~IsRelativeTo(worktree_path, repo_dir)
          THEN ProcessUpTo(acc, rest, original_repo, repo_dir, at)
          ELSE
            LET acc1 == [acc EXCEPT !.valid = @ \cup {worktree_path}]
            IN  IF has_uncommitted_changes(acc1.w, worktree_path)
                THEN ProcessUpTo(
                       [acc1 EXCEPT !.stats.skipped = @ + 1,
                                    !.skippedPaths = @ \cup {worktree_path}],
                       rest, original_repo, repo_dir, at)
                ELSE IF worktree_path = at
                THEN [acc |-> acc1, rest |-> rest, stopped |-> TRUE]
                ELSE ProcessUpTo(CountRemoval(acc1, worktree_path, original_repo),
                                 rest, original_repo, repo_dir, at)

\* lines 201-233: the lingering pass over repo_dir and the removal of repo_dir
FinishRepoDir(acc1, repo_dir) ==
    IF ~IsDir(acc1.w.fs, repo_dir) THEN acc1
    ELSE
      LET acc2 == LingeringPass(acc1, Sorted(ChildDirs(acc1.w.fs, repo_dir)))
      IN  IF is_directory_empty(acc2.w.fs, repo_dir)
          THEN [acc2 EXCEPT !.w.fs = UnlinkJunkAndRmdir(acc2.w.fs, repo_dir),
                            !.direct = @ \cup {repo_dir}]
          ELSE acc2

\* clean_all_worktrees in the first repository directory, up to the return of
\* has_uncommitted_changes with False for one worktree: the worktrees listed
\* before it have been handled
CleanAllCheck ==
    \E discovered \in [RepoDirs -> Repos \cup {NoRepo}], at \in WorktreePaths :
        /\ pending.op = "-"
        /\ ops < MaxRaceOps
        /\ \A d \in RepoDirs :
              IF d \in DOMAIN fs /\ Discoverable(fs, d) # {}
              THEN discovered[d] \in Discoverable(fs, d)
              ELSE discovered[d] = NoRepo
        /\ IsDir(fs, WorktreeBase)
        /\ ChildDirs(fs, WorktreeBase) # {}
        /\ LET repo_dirs == Sorted(ChildDirs(fs, WorktreeBase))
               repo_dir == Head(repo_dirs)
               original_repo == discovered[repo_dir]
           IN  /\ original_repo # NoRepo
               /\ \E p \in {ProcessUpTo(StartPass(Now), get_worktree_list(Now, original_repo),
                                        original_repo, repo_dir, at)} :
                     /\ p.stopped
                     /\ fs' = p.acc.w.fs /\ registry' = p.acc.w.reg /\ branches' = p.acc.w.br
                     /\ pending' = [op |-> "clean_all_worktrees", repo |-> original_repo,
                                    rn |-> BaseName(repo_dir), name |-> <<>>, base |-> <<>>,
                                    path |-> at, seen |-> Now,
                                    pass |-> [acc |-> p.acc, rest |-> p.rest,
                                              repo_dir |-> repo_dir,
                                              repo_dirs |-> Tail(repo_dirs),
                                              discovered |-> discovered]]
        /\ ops' = ops + 1
        /\ UNCHANGED <<last, session>>

\* the rest of the pass: remove_worktree on the world as it is now, the rest of
\* the worktree list, the lingering pass and the other repository directories
CleanAllRemove ==
    /\ pending.op = "clean_all_worktrees"
    /\ \E c \in {CleanRepoDirs(
                   FinishRepoDir(
                     ProcessWorktreeList(
                       CountRemoval([pending.pass.acc EXCEPT !.w = Now], pending.path,
                                    pending.repo),
                       pending.pass.rest, pending.repo, pending.pass.repo_dir),
                     pending.pass.repo_dir),
                   pending.pass.repo_dirs, pending.pass.discovered)} :
        /\ fs' = c.w.fs /\ registry' = c.w.reg /\ branches' = c.w.br
        /\ last' = [NoOp EXCEPT !.op = "clean_all_worktrees", !.result = "stats",
                                !.repo = pending.repo, !.path = pending.path,
                                !.stats = c.stats, !.skippedPaths = c.skippedPaths,
                                !.cleanedPaths = c.cleanedPaths,
                                !.discovered = pending.pass.discovered,
                                !.failedPaths = c.failedPaths,
                                !.lingeringPaths = c.lingeringPaths,
                                !.viaGit = c.viaGit, !.direct = c.direct,
                                !.raced = IF has_uncommitted_changes(Now, pending.path)
                                          THEN {"changes"} ELSE {}]
    /\ pending' = NoPending
    /\ ops' = ops
    /\ session' = session

\* clean_specific_worktree up to the return of has_uncommitted_changes with False
CleanSpecificCheck ==
    \E inv \in Invocations, rn \in RepoNames :
        LET worktree_path == Join(Join(WorktreeBase, rn), inv[2])
        IN  /\ pending.op = "-"
            /\ ops < MaxRaceOps
            /\ IsDir(fs, worktree_path)
            /\ worktree_path \in Range(get_worktree_list(Now, inv[1]))
            /\ ~has_uncommitted_changes(Now, worktree_path)
            /\ pending' = [op |-> "clean_specific_worktree", repo |-> inv[1], rn |-> rn,
                           name |-> inv[2], base |-> <<>>, path |-> worktree_path,
                           seen |-> Now]
            /\ ops' = ops + 1
            /\ UNCHANGED <<fs, registry, branches, last, session>>

\* the rest of clean_specific_worktree: remove_worktree on the world as it is now
CleanSpecificRemove ==
    /\ pending.op = "clean_specific_worktree"
    /\ \E rm \in {remove_worktree(Now, pending.path, pending.repo)} :
        /\ fs' = rm.w.fs /\ registry' = rm.w.reg /\ branches' = rm.w.br
        /\ last' = [NoOp EXCEPT !.op = "clean_specific_worktree", !.repo = pending.repo,
                                !.rn = pending.rn, !.name = pending.name,
                                !.path = pending.path,
                                !.result = rm.result \in {REMOVED, REMOVED_WITH_PARENT},
                                !.returned = IF rm.result \in {REMOVED, REMOVED_WITH_PARENT}
                                             THEN "True" ELSE "False",
                                !.removeStatus = rm.result,
                                !.viaGit = rm.viaGit, !.direct = rm.direct,
                                !.raced = IF has_uncommitted_changes(Now, pending.path)
                                          THEN {"changes"} ELSE {}]
    /\ pending' = NoPending
    /\ ops' = ops
    /\ session' = session

RaceNext ==
    \/ SetupCheck
    \/ SetupCreate
    \/ CleanAllCheck
    \/ CleanAllRemove
    \/ CleanSpecificCheck
    \/ CleanSpecificRemove
    \/ ops < MaxRaceOps /\ CleanAllWorktrees
    \/ ops < MaxRaceOps /\ CreateWorktree
    \/ ops < MaxRaceOps /\ OtherCreatesBranch
    \/ ops < MaxRaceOps /\ OutsideMkdir
    \/ ops < MaxRaceOps /\ UserEdit
    \/ ops < MaxRaceOps /\ OutsideJunk
    \/ ops < MaxRaceOps /\ OtherRemovesTree
    \/ ops < MaxRaceOps /\ RemoveWorktreeOSError

RaceSpec == RaceInit /\ [][RaceNext]_vars

(***************************************************************************)
(* C21.                                                                    *)
(***************************************************************************)
\* the step that ends a setup_worktree whose check had answered NOT_EXISTS
SetupCreateStep == pending.op = "setup_worktree" /\ pending'.op = "-"

\* the branch arguments of the pending call pass create_worktree's own checks,
\* so that it reaches git worktree add
PendingValidates ==
    IF StartsWith(pending.name, OriginPrefix)
    THEN branch_exists_remote(Now, pending.repo, pending.name)
    ELSE \/ branch_exists_local(Now, pending.repo, pending.name)
         \/ pending.base = <<>>
         \/ ~BaseBranchMissing(Now, pending.repo, pending.base)

\* a plain name whose branch exists and is checked out nowhere, or is to start
\* at HEAD or at a ref git resolves, for a path git has not registered
PendingPlainResolves ==
    /\ ~StartsWith(pending.name, OriginPrefix)
    /\ pending.name \notin CheckedOut(Now, pending.repo)
    /\ pending.path \notin Registered(Now, pending.repo)
    /\ \/ branch_exists_local(Now, pending.repo, pending.name)
       \/ pending.base = <<>>
       \/ ResolvesLocal(Now, pending.repo, pending.base)
       \/ ResolvesRemote(pending.base)

\* nothing that was there before the step is lost or changed, except that an
\* empty unregistered directory at the target path becomes the working tree
NothingDamaged ==
    /\ \A p \in DOMAIN fs :
          /\ p \in DOMAIN fs'
          /\ fs'[p] # fs[p] => p = last'.path /\ NoEntries(fs, p)
    /\ \A Q \in Repos :
          /\ \A p \in DOMAIN registry[Q] :
                p \in DOMAIN registry'[Q] /\ registry'[Q][p] = registry[Q][p]
          /\ \A b \in DOMAIN branches[Q] :
                b \in DOMAIN branches'[Q] /\ branches'[Q][b] = branches[Q][b]

\* C21 (as stated): whenever another process created the branch and/or the
\* directory between the check and create_worktree, the call fails with
\* WorktreeCreationFailed, setup_worktree returns False and the exit code is 1.
C21_RaceAlwaysFails ==
    last.op = "setup_worktree" /\ last.raced # {} =>
        /\ last.outcome = WorktreeCreationFailed
        /\ last.result = FALSE
        /\ session.exit = <<1>>

\* C21 (amended): whatever appeared between the check and create_worktree, the
\* step damages nothing; if what appeared at the target path is a worktree or
\* a directory with entries, setup_worktree returns False and the exit code is
\* 1, with WorktreeCreationFailed when the branch arguments resolve; every
\* False ends in exit code 1; and if only a branch of the worktree's name or
\* an empty directory appeared, a call for a plain name whose branch exists
\* (checked out nowhere) or whose start point git resolves, for a path git has
\* not registered, succeeds and returns True.
C21_RaceDamagesNothingOccupiedPathFails ==
    [][SetupCreateStep /\ last'.raced # {} =>
          /\ NothingDamaged
          /\ "entries" \in last'.raced =>
                /\ last'.result = FALSE
                /\ session'.exit = <<1>>
                /\ PendingValidates => last'.outcome = WorktreeCreationFailed
          /\ last'.result = FALSE => session'.exit = <<1>> /\ session'.setup = "False"
          /\ ("entries" \notin last'.raced /\ PendingPlainResolves) =>
                /\ last'.result = TRUE
                /\ last'.path \in DOMAIN registry'[pending.repo]
                /\ registry'[pending.repo][last'.path] = pending.name]_vars

\* another process completed the worktree in the window and the call failed
C21_Witness ==
    /\ last.op = "setup_worktree"
    /\ "entries" \in last.raced
    /\ last.outcome = WorktreeCreationFailed
    /\ session.exit = <<1>>
    /\ last.path \in DOMAIN fs /\ fs[last.path].git # NoRepo

(***************************************************************************)
(* C22.                                                                    *)
(***************************************************************************)
\* C22: create_worktree decides in strict priority.  A name with the origin/
\* prefix takes the remote scenario; otherwise, when a local branch of the
\* worktree's name exists, the worktree is attached to that branch and
\* base_branch is ignored entirely: the outcome and the new world are those of
\* the same call without base_branch, no branch is created or re-pointed, and
\* BaseBranchNotFound is never raised, whether or not base_branch exists
\* anywhere; only a name with neither takes the new-branch scenario.
C22_ExistingBranchIgnoresBase ==
    [][Step("create_worktree") =>
          LET l == last'
              unbased == create_worktree(Now, l.name, l.rn, <<>>, l.repo)
          IN  IF StartsWith(l.name, OriginPrefix) THEN l.scenario = FromRemote
              ELSE IF l.name \in LocalBranches(Now, l.repo)
              THEN /\ l.scenario = FromExisting
                   /\ l.result \in {Created, WorktreeCreationFailed}
                   /\ branches' = branches
                   /\ l.result = unbased.result /\ After = unbased.w
                   /\ l.result = Created =>
                         /\ l.path = TargetPath(l.rn, l.name)
                         /\ l.path \in DOMAIN registry'[l.repo]
                         /\ registry'[l.repo][l.path] = l.name
              ELSE l.scenario = NewBranch]_vars

\* a worktree attached to an existing local branch although the base branch
\* given exists neither locally nor on the remote
C22_Witness ==
    /\ last.op = "create_worktree"
    /\ last.scenario = FromExisting
    /\ last.base = nZ
    /\ last.result = Created
    /\ nZ \notin LocalBranches(Now, last.repo) /\ nZ \notin RemoteBranches
    /\ last.path \in DOMAIN registry[last.repo]

(***************************************************************************)
(* C23.                                                                    *)
(***************************************************************************)
\* a whole call of op is the step taken (not the check of another call)
Ran(op) == last'.op = op /\ ops' = ops + 1 /\ pending' = pending

\* the worktree of the remove_worktree call just made is gone: no directory
\* and no registration in the repository the call named
WorktreeGone ==
    /\ last'.path \notin DOMAIN fs'
    /\ last'.repo \in Repos => last'.path \notin DOMAIN registry'[last'.repo]

\* FAILED exactly when repo_root is no directory or git worktree remove failed,
\* and then nothing changed
FailedChangesNothing ==
    /\ last'.result = FAILED <=>
          \/ last'.repo = MissingRoot
          \/ ~GitWorktreeRemove(Now, last'.repo, last'.path).ok
    /\ last'.result = FAILED => WorldUnchanged

\* C23 (as stated): FAILED leaves everything unchanged, REMOVED_WITH_PARENT
\* means worktree and parent directory are gone, REMOVED means the worktree is
\* gone and the parent directory still exists.
C23_ResultMatchesPostState ==
    [][Ran("remove_worktree") =>
          /\ FailedChangesNothing
          /\ last'.result = REMOVED_WITH_PARENT =>
                WorktreeGone /\ Parent(last'.path) \notin DOMAIN fs'
          /\ last'.result = REMOVED =>
                WorktreeGone /\ Parent(last'.path) \in DOMAIN fs']_vars

\* C23 (amended): as above, except that REMOVED means the worktree is gone and
\* the parent directory still exists if it existed before the call; this
\* includes the run in which the parent looked empty but its rmdir failed.
C23_ResultMatchesPostStateOfExistingParent ==
    [][Ran("remove_worktree") =>
          /\ FailedChangesNothing
          /\ last'.result = REMOVED_WITH_PARENT =>
                WorktreeGone /\ Parent(last'.path) \notin DOMAIN fs'
          /\ last'.result = REMOVED =>
                /\ WorktreeGone
                /\ Parent(last'.path) \in DOMAIN fs => Parent(last'.path) \in DOMAIN fs'
          /\ "rmdir" \in last'.raced =>
                last'.result = REMOVED /\ Parent(last'.path) \in DOMAIN fs']_vars

\* the parent looked empty, its rmdir failed, and the call answered REMOVED
C23_Witness ==
    /\ last.op = "remove_worktree"
    /\ "rmdir" \in last.raced
    /\ last.result = REMOVED
    /\ last.path \notin DOMAIN fs
    /\ Parent(last.path) \in DOMAIN fs /\ NoEntries(fs, Parent(last.path))

(***************************************************************************)
(* C24.                                                                    *)
(***************************************************************************)
\* a directory with no entry, or with junk files only
OnlyJunk(d) == ChildDirs(fs, d) = {} /\ fs[d].git = NoRepo /\ ~fs[d].files

C24_WitnessKept ==
    /\ last.op = "clean_all_worktrees"
    /\ \E p \in last.skippedPaths : p \in DOMAIN fs

(***************************************************************************)
(* C25.                                                                    *)
(***************************************************************************)
\* the checkout the working directory of the get_current_context call lies in
ContextCheckout == CheckoutOf(session.a.cwd, session.env.platform)

\* the root can be mapped: a linked worktree at worktree_base/<repo>/<worktree>,
\* a main checkout under repo_base
Mappable(c, platform) ==
    IF c.root # c.main
    THEN /\ IsRelativeTo(c.root, LOCAL_WORKTREE_BASE(platform))
         /\ Len(Parts(RelativeTo(c.root, LOCAL_WORKTREE_BASE(platform)))) >= 2
    ELSE IsRelativeTo(c.root, LOCAL_REPO_BASE(platform))

\* the image of a local path under the mapping of the local base to the remote base
RemoteImage(path, platform) ==
    Join(REMOTE_REPO_BASE(platform), RelativeTo(path, LOCAL_REPO_BASE(platform)))

\* C25: get_current_context puts every working directory into exactly one of
\* NONE (no repository), WORKTREE (a linked worktree: git-dir differs from
\* git-common-dir) and MAIN_REPO; remote_path is None exactly when the root
\* cannot be mapped, and when set it is the root's image under the base
\* mapping: remote worktree base/<repo>/<worktree name> for every worktree
\* name, names containing "/" included.
C25_ContextClassifiedAndMapped ==
    session.fn = "get_current_context" =>
        LET c == ContextCheckout
            platform == session.env.platform
            context == session.ret[1]
        IN  /\ context.context_type = ContextType_NONE <=> c = NoCheckout
            /\ context.context_type = ContextType_WORKTREE <=>
                  c # NoCheckout /\ c.root # c.main
            /\ context.context_type = ContextType_MAIN_REPO <=>
                  c # NoCheckout /\ c.root = c.main
            /\ c # NoCheckout =>
                  (context.remote_path = NoCommand <=> ~Mappable(c, platform))
            /\ context.remote_path # NoCommand =>
                  context.remote_path = RemoteImage(c.root, platform)

(***************************************************************************)
(* C26.                                                                    *)
(***************************************************************************)
\* Python str.endswith
EndsWith(s, suf) == Len(s) >= Len(suf) /\ SubSeq(s, Len(s) - Len(suf) + 1, Len(s)) = suf

\* ssh was started for a path without a coding tool: a direct call with
\* with_coding_tool False, or the command's --cli flow for a branch
ShellOnlyCall ==
    /\ session.spawned # <<>>
    /\ \/ /\ session.fn \in {"connect_to_remote", "connect_to_remote_path"}
          /\ ~session.a.with_coding_tool
       \/ /\ session.fn = "main"
          /\ session.called = "connect_to_remote"
          /\ session.a.cli

C27_TrueMeansWorktreeAtTargetPath ==
    (last.op = "setup_worktree" /\ last.returned = "True") =>
        /\ TargetPath(last.rn, last.name) \in DOMAIN fs
        /\ fs[TargetPath(last.rn, last.name)].git # NoRepo
        /\ RegisteredAnywhere(TargetPath(last.rn, last.name))

(***************************************************************************)
(* C28.                                                                    *)
(***************************************************************************)
\* the registered worktrees the pass has to handle: those of the original
\* repository discovered for a repository directory that lie under it
ToHandle(discovered) ==
    UNION {{p \in DOMAIN registry[discovered[d]] : IsRelativeTo(p, d)} :
              d \in {x \in RepoDirs : discovered[x] # NoRepo}}

\* C28: in one clean_all_worktrees pass the counters partition the work.  Every
\* registered worktree to handle is counted exactly once, under cleaned,
\* skipped or failed, and is never also deleted or counted by the lingering
\* pass; lingering is the number of non-registered subdirectories actually
\* deleted; failed counts only worktree removals that failed.
C28_CountersPartitionTheWork ==
    [][Ran("clean_all_worktrees") =>
          LET l == last'
              handled == l.cleanedPaths \cup l.skippedPaths \cup l.failedPaths
          IN  /\ handled = ToHandle(l.discovered)
              /\ l.cleanedPaths \cap l.skippedPaths = {}
              /\ l.cleanedPaths \cap l.failedPaths = {}
              /\ l.skippedPaths \cap l.failedPaths = {}
              /\ l.stats.cleaned = Cardinality(l.cleanedPaths)
              /\ l.stats.skipped = Cardinality(l.skippedPaths)
              /\ l.stats.failed = Cardinality(l.failedPaths)
              /\ \A p \in l.failedPaths :
                    ~GitWorktreeRemove(Now, CHOOSE R \in Repos : p \in DOMAIN registry[R], p).ok
              /\ l.lingeringPaths \cap handled = {}
              /\ \A p \in l.skippedPaths \cup l.failedPaths :
                    /\ p \in DOMAIN fs => p \in DOMAIN fs'
                    /\ \A q \in l.lingeringPaths : ~IsRelativeTo(p, q)
              /\ l.stats.lingering = Cardinality(l.lingeringPaths)
              /\ \A q \in l.lingeringPaths :
                    q \in DOMAIN fs /\ q \notin DOMAIN fs']_vars

(***************************************************************************)
(* C30.                                                                    *)
(***************************************************************************)
\* the step that ends a cleanup call stopped after has_uncommitted_changes
\* answered False
RemovalStep ==
    /\ pending.op \in {"clean_all_worktrees", "clean_specific_worktree"}
    /\ pending'.op = "-"

\* since that answer, changes have appeared in the worktree, which is still registered
ChangesAppeared ==
    /\ pending.path \in Registered(Now, pending.repo)
    /\ pending.path \in DOMAIN fs
    /\ fs[pending.path].git = pending.repo
    /\ fs[pending.path].dirty

\* C30: if changes appear in a registered worktree after has_uncommitted_changes
\* returned False and before git worktree remove runs, the worktree is not
\* removed: remove_worktree returns FAILED, clean_all_worktrees counts it under
\* failed, clean_specific_worktree returns False, and the directory with the
\* new changes remains.
C30_LateChangesSurvive ==
    [][(RemovalStep /\ ChangesAppeared) =>
          /\ pending.path \in DOMAIN fs'
          /\ fs'[pending.path].dirty
          /\ pending.path \in DOMAIN registry'[pending.repo]
          /\ pending.op = "clean_specific_worktree" =>
                last'.removeStatus = FAILED /\ last'.returned = "False"
          /\ pending.op = "clean_all_worktrees" =>
                /\ pending.path \in last'.failedPaths
                /\ last'.stats.failed = Cardinality(last'.failedPaths)]_vars

(***************************************************************************)
(* C29.                                                                    *)
(***************************************************************************)
\* the step in which main runs a flow that takes a branch and reaches setup_worktree
BranchFlowStep ==
    /\ session = NoSession
    /\ session'.fn = "main"
    /\ session'.a.branch # NoCommand
    /\ ~session'.a.clean
    /\ session'.setup # "-"

\* what setup_worktree does in the invocation of that step
SetupOf(s) ==
    setup_worktree(Now, s.a.branch, s.a.from_branch, get_repo_info(s.env).name,
                   get_repo_info(s.env).root, s.env.confirm)

\* C29: in every flow of main that takes a branch, no ssh or local tool process
\* is spawned and no connect function is called unless setup_worktree returned
\* True; when it returns False the invocation exits with 1 without a connection
\* attempt; and a missing SSH key gives exit code 1 after setup, with the world
\* as setup_worktree left it, the created worktree in place.
C29_NoConnectionWithoutSetup ==
    [][BranchFlowStep =>
          LET s == session'
              st == SetupOf(s)
          IN  /\ (s.spawned # <<>> \/ s.called # NoCall) => s.setup = "True"
              /\ s.setup = "False" =>
                    s.exit = <<1>> /\ s.called = NoCall /\ s.spawned = <<>>
              /\ (s.setup = "True" /\ s.called = "connect_to_remote"
                    /\ SSH_KEY_PATH \notin s.env.keys) =>
                    /\ s.exit = <<1>> /\ s.spawned = <<>>
                    /\ fs' = st.w.fs /\ registry' = st.w.reg /\ branches' = st.w.br
                    /\ st.calledCreate =>
                          /\ st.path \in DOMAIN fs'
                          /\ \E R \in Repos : st.path \in DOMAIN registry'[R]]_vars

\* an invocation created a worktree and then found the SSH key missing
C29_Witness ==
    /\ session.fn = "main"
    /\ session.a.branch # NoCommand
    /\ session.setup = "True"
    /\ session.called = "connect_to_remote"
    /\ SSH_KEY_PATH \notin session.env.keys
    /\ session.exit = <<1>>
    /\ Now \notin StartWorlds

\* an invocation whose setup_worktree returned False
C29_WitnessSetupFailed ==
    /\ session.fn = "main"
    /\ session.setup = "False"
    /\ session.exit = <<1>>

====
